---------------------------- MODULE Spec2Model ----------------------------
(***************************************************************************)
(* File change tracking of the BLS ingest (rearc_quest).                   *)
(*                                                                         *)
(* One ingest run is BLSDataDownloader.download_relevant_files             *)
(* (src/src/ingest/bls.py): the directory listing is retrieved, the        *)
(* listing is reconciled against the tracking CSV by upsert_file_tracker   *)
(* (an SCD type 2 ledger), the new and changed files are downloaded by a   *)
(* thread pool, and then the tracking CSV is written and the files that    *)
(* left the listing are deleted.                                           *)
(*                                                                         *)
(* A DataFrame is a sequence of rows; the pandas index of a row is its     *)
(* position (read_csv gives a RangeIndex, pd.concat is called with         *)
(* ignore_index=True).  Every cell is a string.  File names, listing       *)
(* timestamps and URLs are texts that pandas.read_csv reads back as the    *)
(* same text (BLS names such as pr.data.0.Current, "%m/%d/%Y %I:%M %p"     *)
(* timestamps, http URLs).                                                 *)
(*                                                                         *)
(* Spec and SpecDup are the runs with the tracking file and the download   *)
(* directory on s3 (file_exists and delete_files swallow the errors of     *)
(* the bucket).  SpecLocal is the same code on the local file system, with *)
(* the points at which the process can stop.  SpecStandalone is the older  *)
(* src/bls.py, whose upsert_file_tracker writes the first ledger itself.   *)
(* SpecRetry takes the attempts of the tenacity-retried calls as single    *)
(* steps.  SpecMalformed starts from a tracking file that lacks a column.  *)
(* SpecPage adds the request and the parsing of the listing page.          *)
(* SpecConfig and SpecConfigStandalone start from the loading of the       *)
(* configuration in the two variants.  SpecLambda is lambda_handler        *)
(* (src/src/main.py) around the ingest.  SpecWrite is the writers of       *)
(* src/src/utils on a storage of directories and files.  SpecDownload and  *)
(* SpecDownloadStandalone take the status of the response of each download *)
(* attempt in the two variants.  SpecTwoRuns has a second run in another   *)
(* process between the steps of the first.  SpecTermination is SpecRetry   *)
(* with the requests that are never answered, under fair scheduling.       *)
(***************************************************************************)
EXTENDS Integers, Sequences, FiniteSets, TLC

VARIABLES
    ledgerFile,     \* the tracking CSV at tracking_csv_file: exists, rows
    store,          \* names of the files present in download_dir
    clock,          \* wall clock, in seconds
    pc,             \* position of the current run in download_relevant_files
    max_workers,    \* config.download.max_workers of the current run
    listing,        \* file_metadata_list
    loaded,         \* df_target as loaded from the CSV; exists = FALSE when none was loaded
    df,             \* df_updated_target
    updates,        \* updates
    deletions,      \* deletions
    tasks,          \* state of each submitted download future
    files_to_download,  \* files_to_download: the (full_url, file_name) pairs
    attempts,       \* attempts each download_file call has made so far
    columns,        \* header of the tracking CSV
    fetch,          \* the errors of the attempts retrieve_files_metadata has made so far
    response,       \* the response requests.get gave the current attempt
    base_url,       \* base_url of the configuration the run loaded
    handler,        \* the invocation of lambda_handler: its event, position and response
    fs,             \* the directories and files of the storage, and the last write call
    other           \* a second run of download_relevant_files, in another process

vars == <<ledgerFile, store, clock, pc, max_workers, listing, loaded,
          df, updates, deletions, tasks, files_to_download, attempts,
          columns, fetch, response, base_url, handler, fs, other>>

----------------------------------------------------------------------------
(* Bounds of the model *)

\* stop=stop_after_attempt(3) of the tenacity decorators
StopAfterAttempt == 3

MaxRows == 4        \* rows of the ledger: a run starts while a listing still fits
MaxClock == 1       \* last second of the clock
MaxListing == 2     \* records in one directory listing
MaxWorkers == 2     \* largest max_workers a configuration sets

FileNames == {"A", "B"}
FileTimestamps == {"t1", "t2"}
FullUrls == {"u1", "u2"}

----------------------------------------------------------------------------
(* Values of cells *)

\* Python None, as put in end_timestamp of a new row
None == "None"
\* float NaN: what read_csv returns for an empty field
NaN == "NaN"
\* pd.NaT: what fillna puts in place of NaN in end_timestamp
NaT == "NaT"

\* pandas isna()
IsNull(v) == v \in {None, NaN, NaT}

\* datetime.now().strftime("%Y-%m-%d %H:%M:%S")
Strftime(t) == ToString(t)

\* One record of the listing, as retrieve_files_metadata appends it
AllRecords == [file_name : FileNames, file_timestamp : FileTimestamps, full_url : FullUrls]

\* the records listings are drawn from: file A is seen in three versions (a
\* changed timestamp, a changed URL), file B in one
SourceRecords ==
    {r \in AllRecords :
        /\ r.file_name = "B" => (r.file_timestamp = "t1" /\ r.full_url = "u1")
        /\ ~(r.file_timestamp = "t2" /\ r.full_url = "u2")}

\* every listing the directory page can yield
DupListings == UNION {[1..n -> SourceRecords] : n \in 0..MaxListing}

\* set(df_source["file_name"])
SourceFileNames(src) == {src[i].file_name : i \in 1..Len(src)}

\* the listing holds every file_name at most once
UniqueNames(src) == \A i, j \in 1..Len(src) : src[i].file_name = src[j].file_name => i = j

\* the listings of a directory: no two entries have the same name
Listings == {l \in DupListings : UniqueNames(l)}

----------------------------------------------------------------------------
(* CSV persistence of the ledger *)

\* DataFrame.to_csv: a missing value is written as an empty field
ToCsvField(v) == IF IsNull(v) THEN "" ELSE v

\* faulty variant: an empty field is read as the empty string
FromCsvFieldAsText(s) == s

\* pandas.read_csv: an empty field is read as NaN
FromCsvField(s) == IF s = "" THEN NaN ELSE s

ToCsvRow(r) == [r EXCEPT !.end_timestamp = ToCsvField(r.end_timestamp)]

\* df.to_csv(file_path, index=False)
ToCsv(frame) == [i \in 1..Len(frame) |-> ToCsvRow(frame[i])]

FromCsvRow(r) == [r EXCEPT !.end_timestamp = FromCsvField(r.end_timestamp)]

\* pd.read_csv(file_path)
ReadCsv(rows) == [i \in 1..Len(rows) |-> FromCsvRow(rows[i])]

\* df_target.fillna({"end_timestamp": pd.NaT})
FillNa(frame) ==
    [i \in 1..Len(frame) |->
        IF frame[i].end_timestamp = NaN
        THEN [frame[i] EXCEPT !.end_timestamp = NaT]
        ELSE frame[i]]

\* the tracking data as upsert_file_tracker loads it
LoadTarget(rows) == FillNa(ReadCsv(rows))

----------------------------------------------------------------------------
(* upsert_file_tracker *)

\* faulty variant: the row starts at the timestamp of the listing
NewRecordListingTime(row, now) ==
    [file_name |-> row.file_name,
     file_timestamp |-> row.file_timestamp,
     full_url |-> row.full_url,
     start_timestamp |-> row.file_timestamp,
     end_timestamp |-> None,
     is_active |-> "Y"]

\* the dict appended to updates, and the row of the first ledger
NewRecord(row, now) ==
    [file_name |-> row.file_name,
     file_timestamp |-> row.file_timestamp,
     full_url |-> row.full_url,
     start_timestamp |-> now,
     end_timestamp |-> None,
     is_active |-> "Y"]

\* faulty variant: the lookup without the is_active filter
ExistingRecordsAnyStatus(target, name) ==
    {j \in 1..Len(target) : target[j].file_name = name}

\* df_target[(file_name == name) & (is_active == "Y")].index
ExistingRecords(target, name) ==
    {j \in 1..Len(target) : target[j].file_name = name /\ target[j].is_active = "Y"}

\* existing_records.iloc[0].name
First(S) == CHOOSE j \in S : \A k \in S : j <= k

\* faulty variant: only the timestamp is compared
IsUpdatedTimestampOnly(latest_record, row) ==
    latest_record.file_timestamp /= row.file_timestamp

\* faulty variant: the listing's timestamp is compared with the wrong column
IsUpdatedWrongColumn(latest_record, row) ==
    \/ latest_record.start_timestamp /= row.file_timestamp
    \/ latest_record.full_url /= row.full_url

\* the update test of the loop
IsUpdated(latest_record, row) ==
    \/ latest_record.file_timestamp /= row.file_timestamp
    \/ latest_record.full_url /= row.full_url

\* faulty variant: the flag is_active is not flipped
MarkInactiveKeepsActive(target, S, now) ==
    [j \in 1..Len(target) |->
        IF j \in S THEN [target[j] EXCEPT !.end_timestamp = now] ELSE target[j]]

\* faulty variant: end_timestamp is not stamped
MarkInactiveNoEndTimestamp(target, S, now) ==
    [j \in 1..Len(target) |->
        IF j \in S THEN [target[j] EXCEPT !.is_active = "N"] ELSE target[j]]

\* faulty variant: the row that ends also gets a new start_timestamp
MarkInactiveRestamps(target, S, now) ==
    [j \in 1..Len(target) |->
        IF j \in S
        THEN [target[j] EXCEPT !.is_active = "N", !.end_timestamp = now,
                               !.start_timestamp = now]
        ELSE target[j]]

\* df_target.loc[index, "is_active"] = "N"; df_target.loc[index, "end_timestamp"] = now
MarkInactive(target, S, now) ==
    [j \in 1..Len(target) |->
        IF j \in S
        THEN [target[j] EXCEPT !.is_active = "N", !.end_timestamp = now]
        ELSE target[j]]

\* faulty variant: a file that returns gets its old inactive row made active again
RECURSIVE UpsertLoopReactivates(_, _, _, _, _)
UpsertLoopReactivates(src, i, target, upd, now) ==
    IF i > Len(src)
    THEN [target |-> target, updates |-> upd]
    ELSE LET row == src[i]
             existing_records == ExistingRecords(target, row.file_name)
             old == {j \in 1..Len(target) :
                        target[j].file_name = row.file_name /\ target[j].is_active = "N"}
         IN  IF existing_records /= {}
             THEN LET latest == First(existing_records)
                  IN  IF IsUpdated(target[latest], row)
                      THEN UpsertLoopReactivates(src, i + 1,
                                                 MarkInactive(target, {latest}, now),
                                                 Append(upd, NewRecord(row, now)), now)
                      ELSE UpsertLoopReactivates(src, i + 1, target, upd, now)
             ELSE IF old /= {}
                  THEN UpsertLoopReactivates(src, i + 1,
                                             [target EXCEPT ![First(old)] = NewRecord(row, now)],
                                             upd, now)
                  ELSE UpsertLoopReactivates(src, i + 1, target,
                                             Append(upd, NewRecord(row, now)), now)

\* for _, row in df_source.iterrows(): from row i on
RECURSIVE UpsertLoop(_, _, _, _, _)
UpsertLoop(src, i, target, upd, now) ==
    IF i > Len(src)
    THEN [target |-> target, updates |-> upd]
    ELSE LET row == src[i]
             existing_records == ExistingRecords(target, row.file_name)
         IN  IF existing_records /= {}
             THEN LET latest == First(existing_records)
                  IN  IF IsUpdated(target[latest], row)
                      THEN UpsertLoop(src, i + 1, MarkInactive(target, {latest}, now),
                                      Append(upd, NewRecord(row, now)), now)
                      ELSE UpsertLoop(src, i + 1, target, upd, now)
             ELSE UpsertLoop(src, i + 1, target, Append(upd, NewRecord(row, now)), now)

\* faulty variant: every active row counts as missing
MissingFilesAllActive(target, names) ==
    {j \in 1..Len(target) : target[j].is_active = "Y"}

\* faulty variant: every row of the ledger counts as missing
MissingFilesEveryRow(target, names) == 1..Len(target)

\* missing_files.index
MissingFiles(target, names) ==
    {j \in 1..Len(target) : target[j].file_name \notin names /\ target[j].is_active = "Y"}

\* missing_files["file_name"].tolist()
RECURSIVE NamesOf(_, _, _)
NamesOf(target, S, j) ==
    IF j > Len(target) THEN <<>>
    ELSE IF j \in S THEN <<target[j].file_name>> \o NamesOf(target, S, j + 1)
    ELSE NamesOf(target, S, j + 1)

\* faulty variant: the first ledger is returned without its rows as additions
UpsertFirstNoAdditions(src, now) ==
    LET df_source == [i \in 1..Len(src) |-> NewRecord(src[i], now)]
    IN  [raised |-> FALSE, df |-> df_source, updates |-> <<>>, deletions |-> <<>>]

\* the branch taken when file_exists(target_file) is false
UpsertFirst(src, now) ==
    LET df_source == [i \in 1..Len(src) |-> NewRecord(src[i], now)]
    IN  [raised |-> FALSE, df |-> df_source, updates |-> df_source, deletions |-> <<>>]

\* the branch that loads the tracking file
UpsertExisting(src, rows, now) ==
    IF Len(src) = 0
    THEN \* pd.DataFrame([]) has no column: df_source["file_name"] raises KeyError
         [raised |-> TRUE, df |-> <<>>, updates |-> <<>>, deletions |-> <<>>]
    ELSE LET names == SourceFileNames(src)
             loop == UpsertLoop(src, 1, LoadTarget(rows), <<>>, now)
             missing_files == MissingFiles(loop.target, names)
             marked == MarkInactive(loop.target, missing_files, now)
         IN  [raised |-> FALSE,
              df |-> marked \o loop.updates,
              updates |-> loop.updates,
              deletions |-> NamesOf(loop.target, missing_files, 1)]

\* upsert_file_tracker(source_data, target_file), given what file_exists returned
UpsertFileTracker(src, exists, rows, now) ==
    IF ~exists THEN UpsertFirst(src, now) ELSE UpsertExisting(src, rows, now)

\* the columns of the tracking data
Columns == {"file_name", "file_timestamp", "full_url",
            "start_timestamp", "end_timestamp", "is_active"}

\* the loaded tracking data has the columns cols: a column the code reads with
\* df_target[...] or latest_record[...] and that is missing raises KeyError
RaisesKeyError(src, target, cols, now) ==
    \/ "file_name" \notin cols
    \/ "is_active" \notin cols
    \/ \E i \in 1..Len(src) :
          LET before == UpsertLoop(SubSeq(src, 1, i - 1), 1, target, <<>>, now).target
              existing_records == ExistingRecords(before, src[i].file_name)
          IN  /\ existing_records /= {}
              /\ \/ "file_timestamp" \notin cols
                 \/ /\ "full_url" \notin cols
                    /\ before[First(existing_records)].file_timestamp = src[i].file_timestamp

\* the columns of df_updated_target: DataFrame(source_data) plus the three
\* assigned columns on the first run; otherwise the loaded columns, those of
\* df_updates after pd.concat, and end_timestamp once .loc has set it
DfColumns(exists, cols, frame, upd) ==
    IF ~exists
    THEN IF upd = <<>> THEN {"start_timestamp", "end_timestamp", "is_active"} ELSE Columns
    ELSE cols \cup (IF upd /= <<>> THEN Columns ELSE {})
              \cup (IF \E j \in 1..Len(frame) : ~IsNull(frame[j].end_timestamp)
                    THEN {"end_timestamp"} ELSE {})

----------------------------------------------------------------------------
(* State of an ingest run *)

NoFrame == <<>>
NotLoaded == [exists |-> FALSE, rows |-> <<>>]
\* the base_url of a configuration, as its scheme and the rest
HttpsUrl == <<"https://", "host/">>
\* an empty storage on which no write was called
NoFiles == [dirs |-> {}, files |-> {}, call |-> [op |-> "none"]]
\* lambda_handler has not been invoked
NoInvocation == [at |-> "idle", event |-> [has_records |-> FALSE, Records |-> <<>>],
                 config_path |-> None, run_type |-> "", calls |-> <<>>,
                 statusCode |-> 0]
\* no second run is under way
NoOtherRun == [pc |-> "idle", exists |-> FALSE, df |-> <<>>, updates |-> <<>>,
               deletions |-> <<>>]
\* no request has been answered
NoResponse == [status_code |-> 0, pre |-> FALSE, lines |-> <<>>]

Init ==
    /\ ledgerFile = [exists |-> FALSE, rows |-> <<>>]
    /\ store = {}
    /\ clock = 0
    /\ pc = "idle"
    /\ max_workers = 1
    /\ listing = <<>>
    /\ loaded = NotLoaded
    /\ df = NoFrame
    /\ updates = <<>>
    /\ deletions = <<>>
    /\ tasks = <<>>
    /\ files_to_download = <<>>
    /\ attempts = <<>>
    /\ columns = Columns
    /\ fetch = <<>>
    /\ response = NoResponse
    /\ base_url = HttpsUrl
    /\ handler = NoInvocation
    /\ fs = NoFiles
    /\ other = NoOtherRun

\* the process of a run has ended: its locals are gone
EndRun(outcome) ==
    /\ pc' = outcome
    /\ max_workers' = 1
    /\ listing' = <<>>
    /\ loaded' = NotLoaded
    /\ df' = NoFrame
    /\ updates' = <<>>
    /\ deletions' = <<>>
    /\ tasks' = <<>>
    /\ files_to_download' = <<>>
    /\ attempts' = <<>>
    /\ fetch' = <<>>
    /\ response' = NoResponse
    /\ base_url' = HttpsUrl
    /\ UNCHANGED <<handler, fs, other>>

\* the tasks that hold a worker thread: in download_file, be it in a
\* requests.get that is not answered
Running(t) == {i \in 1..Len(t) : t[i] \in {"running", "blocked"}}
AllDone(t) == \A i \in 1..Len(t) : t[i] \in {"ok", "error"}

\* elements of a list of names
Elems(s) == {s[i] : i \in 1..Len(s)}

----------------------------------------------------------------------------
(* download_relevant_files, step by step *)

\* main(): the configuration is loaded and retrieve_files_metadata returns a listing
RetrieveFilesMetadata(pages) ==
    /\ pc \in {"idle", "done", "failed"}
    /\ Len(ledgerFile.rows) + MaxListing <= MaxRows
    /\ clock' \in {clock, clock + 1}
    /\ clock' <= MaxClock
    /\ \E l \in pages : listing' = l
    /\ pc' = "listed"
    /\ UNCHANGED <<ledgerFile, columns, store, max_workers, loaded, df, updates, deletions,
                   tasks, files_to_download, attempts, fetch, response, base_url,
                   handler, fs, other>>

\* retrieve_files_metadata raises after its attempts: the run fails
RetrieveFilesMetadataFails ==
    /\ pc \in {"idle", "done", "failed"}
    /\ Len(ledgerFile.rows) + MaxListing <= MaxRows
    /\ clock' \in {clock, clock + 1}
    /\ clock' <= MaxClock
    /\ EndRun("failed")
    /\ UNCHANGED <<ledgerFile, columns, store>>

\* the call of upsert_file_tracker, with the answer file_exists gave
Reconcile(exists) ==
    LET r == UpsertFileTracker(listing, exists, ledgerFile.rows, Strftime(clock))
        key_error == /\ exists
                     /\ columns /= Columns
                     /\ RaisesKeyError(listing, LoadTarget(ledgerFile.rows), columns,
                                       Strftime(clock))
    IN  IF r.raised \/ key_error
        THEN /\ EndRun("failed")
             /\ UNCHANGED <<ledgerFile, columns, store, clock>>
        ELSE /\ pc' = "reconciled"
             /\ loaded' = [exists |-> exists,
                           rows |-> IF exists THEN LoadTarget(ledgerFile.rows) ELSE <<>>]
             /\ df' = r.df
             /\ updates' = r.updates
             /\ deletions' = r.deletions
             /\ UNCHANGED <<ledgerFile, columns, store, clock, max_workers, listing, tasks,
                            files_to_download, attempts, fetch, response, base_url,
                            handler, fs, other>>

\* upsert_file_tracker: file_exists answers what the storage holds
UpsertFileTrackerCall ==
    /\ pc = "listed"
    /\ Reconcile(ledgerFile.exists)

\* upsert_file_tracker on s3: head_object raises a ClientError other than
\* "not found" (access denied, throttling) and file_exists returns False
UpsertFileTrackerHeadError ==
    /\ pc = "listed"
    /\ ledgerFile.exists
    /\ Reconcile(FALSE)

\* faulty variant: every file of the listing is downloaded
FilesToDownloadWholeListing(upd) ==
    [i \in 1..Len(listing) |-> <<listing[i].full_url, listing[i].file_name>>]

\* for update in updates: files_to_download.append((full_url, file_name))
FilesToDownload(upd) ==
    [i \in 1..Len(upd) |-> <<upd[i].full_url, upd[i].file_name>>]

\* ThreadPoolExecutor(max_workers=config.download.max_workers), and
\* executor.submit for every (full_url, file_name) of files_to_download
SubmitDownloads ==
    /\ pc = "reconciled"
    /\ \E w \in 1..MaxWorkers : max_workers' = w
    /\ files_to_download' = FilesToDownload(updates)
    /\ tasks' = [i \in 1..Len(files_to_download') |-> "queued"]
    /\ attempts' = [i \in 1..Len(files_to_download') |-> 0]
    /\ pc' = "download"
    /\ UNCHANGED <<ledgerFile, columns, store, clock, listing, loaded, df, updates, deletions,
                   fetch, response, base_url, handler, fs, other>>

\* faulty variant: a thread is started for every work item
StartDownloadUnbounded(i) ==
    /\ pc = "download"
    /\ tasks[i] = "queued"
    /\ tasks' = [tasks EXCEPT ![i] = "running"]
    /\ UNCHANGED <<ledgerFile, columns, store, clock, pc, max_workers, listing, loaded,
                   df, updates, deletions, files_to_download, attempts, fetch, response,
                   base_url, handler, fs, other>>

\* a worker thread of the pool takes the next work item of the queue
StartDownload(i) ==
    /\ pc = "download"
    /\ tasks[i] = "queued"
    /\ \A j \in 1..(i - 1) : tasks[j] /= "queued"
    /\ Cardinality(Running(tasks)) < max_workers
    /\ tasks' = [tasks EXCEPT ![i] = "running"]
    /\ UNCHANGED <<ledgerFile, columns, store, clock, pc, max_workers, listing, loaded,
                   df, updates, deletions, files_to_download, attempts, fetch, response,
                   base_url, handler, fs, other>>

\* download_file returns: the file is stored
DownloadSucceeds(i) ==
    /\ pc = "download"
    /\ tasks[i] = "running"
    /\ tasks' = [tasks EXCEPT ![i] = "ok"]
    /\ store' = store \cup {files_to_download[i][2]}
    /\ UNCHANGED <<ledgerFile, columns, clock, pc, max_workers, listing, loaded,
                   df, updates, deletions, files_to_download, attempts, fetch, response,
                   base_url, handler, fs, other>>

\* faulty variant: the error of one download ends the run
DownloadFailsAbortsRun(i) ==
    /\ pc = "download"
    /\ tasks[i] = "running"
    /\ EndRun("failed")
    /\ UNCHANGED <<ledgerFile, columns, store, clock>>

\* download_file raises after its attempts: logged by the as_completed loop
DownloadFails(i) ==
    /\ pc = "download"
    /\ tasks[i] = "running"
    /\ tasks' = [tasks EXCEPT ![i] = "error"]
    /\ UNCHANGED <<ledgerFile, columns, store, clock, pc, max_workers, listing, loaded,
                   df, updates, deletions, files_to_download, attempts, fetch, response,
                   base_url, handler, fs, other>>

\* if updates or deletions: write_dataframe_as_csv succeeds
WriteLedger ==
    /\ pc = "download"
    /\ AllDone(tasks)
    /\ updates /= <<>> \/ deletions /= <<>>
    /\ ledgerFile' = [exists |-> TRUE, rows |-> ToCsv(df)]
    /\ columns' = DfColumns(loaded.exists, columns, df, updates)
    /\ IF deletions /= <<>>
       THEN /\ pc' = "delete"
            /\ UNCHANGED <<max_workers, listing, loaded, df, updates, deletions, tasks,
                           files_to_download, attempts, fetch, response, base_url,
                           handler, fs, other>>
       ELSE EndRun("done")
    /\ UNCHANGED <<store, clock>>

\* write_dataframe_as_csv raises after its attempts: the run fails
WriteLedgerFails ==
    /\ pc = "download"
    /\ AllDone(tasks)
    /\ updates /= <<>> \/ deletions /= <<>>
    /\ EndRun("failed")
    /\ UNCHANGED <<ledgerFile, columns, store, clock>>

\* else: "No changes found in source hence tracking file is not updated"
NoChanges ==
    /\ pc = "download"
    /\ AllDone(tasks)
    /\ updates = <<>> /\ deletions = <<>>
    /\ EndRun("done")
    /\ UNCHANGED <<ledgerFile, columns, store, clock>>

\* where the download directory is
Backends == {"s3", "local"}

\* faulty variant: os.remove without the test, which raises on a missing file
RECURSIVE DeleteLocalWithoutTest(_, _)
DeleteLocalWithoutTest(st, file_list) ==
    IF file_list = <<>>
    THEN [store |-> st, raised |-> FALSE]
    ELSE IF Head(file_list) \in st
         THEN DeleteLocalWithoutTest(st \ {Head(file_list)}, Tail(file_list))
         ELSE [store |-> st, raised |-> TRUE]

\* delete_files on a local directory: a file is removed if os.path.exists
\* finds it, and is passed over otherwise
RECURSIVE DeleteLocal(_, _)
DeleteLocal(st, file_list) ==
    IF file_list = <<>>
    THEN [store |-> st, raised |-> FALSE]
    ELSE IF Head(file_list) \in st
         THEN DeleteLocal(st \ {Head(file_list)}, Tail(file_list))
         ELSE DeleteLocal(st, Tail(file_list))

\* delete_files on s3: delete_object for every key; the service answers a
\* key that is not there like one that is
RECURSIVE DeleteS3(_, _)
DeleteS3(st, file_list) ==
    IF file_list = <<>>
    THEN [store |-> st, raised |-> FALSE]
    ELSE DeleteS3(st \ {Head(file_list)}, Tail(file_list))

\* delete_files(directory, file_list) on the files st of the directory
DeleteFilesOn(backend, st, file_list) ==
    IF backend = "s3" THEN DeleteS3(st, file_list) ELSE DeleteLocal(st, file_list)

\* delete_files(directory, deletions)
DeleteFiles ==
    /\ pc = "delete"
    /\ \E backend \in Backends :
          /\ ~DeleteFilesOn(backend, store, deletions).raised
          /\ store' = DeleteFilesOn(backend, store, deletions).store
    /\ EndRun("done")
    /\ UNCHANGED <<ledgerFile, columns, clock>>

\* delete_files on s3: a delete_object that raises is logged and skipped, so
\* the files of kept stay in the bucket and the run still ends normally
DeleteFilesSwallowsErrors ==
    /\ pc = "delete"
    /\ \E kept \in SUBSET (Elems(deletions) \cap store) :
        /\ kept /= {}
        /\ store' = store \ (Elems(deletions) \ kept)
    /\ EndRun("done")
    /\ UNCHANGED <<ledgerFile, columns, clock>>

\* delete_files on the local file system: os.remove raises on the file after
\* the first k of the list, on each attempt, and the run fails
DeleteFilesRaises ==
    /\ pc = "delete"
    /\ \E k \in 0..(Len(deletions) - 1) :
        /\ deletions[k + 1] \in store
        /\ store' = store \ Elems(SubSeq(deletions, 1, k))
    /\ EndRun("failed")
    /\ UNCHANGED <<ledgerFile, columns, clock>>

\* the process stops (kill, power loss, Lambda timeout) between two steps
Crash ==
    /\ pc \in {"listed", "reconciled", "download", "delete"}
    /\ EndRun("failed")
    /\ UNCHANGED <<ledgerFile, columns, store, clock>>

\* the process stops inside df.to_csv(file_path) on a local path: the file was
\* opened for writing and holds the header and the first n rows
CrashDuringWrite ==
    /\ pc = "download"
    /\ AllDone(tasks)
    /\ updates /= <<>> \/ deletions /= <<>>
    /\ \E n \in 0..(Len(df) - 1) :
        ledgerFile' = [exists |-> TRUE, rows |-> SubSeq(ToCsv(df), 1, n)]
    /\ columns' = DfColumns(loaded.exists, columns, df, updates)
    /\ EndRun("failed")
    /\ UNCHANGED <<store, clock>>

\* upsert_file_tracker of src/bls.py: without a tracking file it writes the
\* first ledger itself, df_source.to_csv(target_file), before it returns
UpsertFileTrackerStandalone ==
    /\ pc = "listed"
    /\ IF ~ledgerFile.exists
       THEN LET r == UpsertFirst(listing, Strftime(clock))
            IN  /\ ledgerFile' = [exists |-> TRUE, rows |-> ToCsv(r.df)]
                /\ columns' = DfColumns(FALSE, columns, r.df, r.updates)
                /\ pc' = "reconciled"
                /\ loaded' = NotLoaded
                /\ df' = r.df
                /\ updates' = r.updates
                /\ deletions' = r.deletions
                /\ UNCHANGED <<store, clock, max_workers, listing, tasks,
                               files_to_download, attempts, fetch, response, base_url,
                               handler, fs, other>>
       ELSE Reconcile(TRUE)

----------------------------------------------------------------------------
(* The retried calls, attempt by attempt *)

\* what makes an attempt of retrieve_files_metadata raise: requests.get
\* raises, the status is not 200, strptime rejects the timestamp of a row
FetchErrors == {"connection", "http_status", "timestamp_format"}

\* main(): the configuration is loaded and download_relevant_files begins
StartRun ==
    /\ pc \in {"idle", "done", "failed"}
    /\ Len(ledgerFile.rows) + MaxListing <= MaxRows
    /\ clock' \in {clock, clock + 1}
    /\ clock' <= MaxClock
    /\ pc' = "fetch"
    /\ UNCHANGED <<ledgerFile, columns, store, max_workers, listing, loaded, df, updates,
                   deletions, tasks, files_to_download, attempts, fetch, response, base_url,
                   handler, fs, other>>

\* an attempt of retrieve_files_metadata returns file_metadata_list; a page
\* without the <pre> block, or with lines the pattern does not match, gives
\* an empty or a shorter list
RetrieveAttemptReturns(pages) ==
    /\ pc = "fetch"
    /\ \E l \in pages : listing' = l
    /\ pc' = "listed"
    /\ fetch' = <<>>
    /\ UNCHANGED <<ledgerFile, columns, store, clock, max_workers, loaded, df, updates,
                   deletions, tasks, files_to_download, attempts, response, base_url,
                   handler, fs, other>>

\* an attempt of retrieve_files_metadata raises: every exception is caught,
\* raised again and retried by tenacity until stop_after_attempt(3)
RetrieveAttemptRaises(error) ==
    /\ pc = "fetch"
    /\ IF Len(fetch) + 1 < StopAfterAttempt
       THEN /\ fetch' = Append(fetch, error)
            /\ UNCHANGED <<pc, max_workers, listing, loaded, df, updates, deletions,
                           tasks, files_to_download, attempts, response, base_url,
                           handler, fs, other>>
       ELSE EndRun("failed")
    /\ UNCHANGED <<ledgerFile, columns, store, clock>>

\* faulty variant: the first failed attempt is the task's error
DownloadAttemptFailsOnce(i) ==
    /\ pc = "download"
    /\ tasks[i] = "running"
    /\ attempts' = [attempts EXCEPT ![i] = @ + 1]
    /\ tasks' = [tasks EXCEPT ![i] = "error"]
    /\ UNCHANGED <<ledgerFile, columns, store, clock, pc, max_workers, listing, loaded,
                   df, updates, deletions, files_to_download, fetch, response, base_url,
                   handler, fs, other>>

\* an attempt of download_file raises: tenacity runs it again, and after the
\* attempt stop_after_attempt(3) allows last the future ends with the error
DownloadAttemptFails(i) ==
    /\ pc = "download"
    /\ tasks[i] = "running"
    /\ attempts' = [attempts EXCEPT ![i] = @ + 1]
    /\ tasks' = IF attempts'[i] >= StopAfterAttempt
                THEN [tasks EXCEPT ![i] = "error"]
                ELSE tasks
    /\ UNCHANGED <<ledgerFile, columns, store, clock, pc, max_workers, listing, loaded,
                   df, updates, deletions, files_to_download, fetch, response, base_url,
                   handler, fs, other>>

\* an attempt of download_file returns: the file is stored
DownloadAttemptSucceeds(i) ==
    /\ pc = "download"
    /\ tasks[i] = "running"
    /\ attempts' = [attempts EXCEPT ![i] = @ + 1]
    /\ tasks' = [tasks EXCEPT ![i] = "ok"]
    /\ store' = store \cup {files_to_download[i][2]}
    /\ UNCHANGED <<ledgerFile, columns, clock, pc, max_workers, listing, loaded,
                   df, updates, deletions, files_to_download, fetch, response, base_url,
                   handler, fs, other>>

----------------------------------------------------------------------------
(* The specifications *)

Next ==
    \/ RetrieveFilesMetadata(Listings)
    \/ RetrieveFilesMetadataFails
    \/ UpsertFileTrackerCall
    \/ UpsertFileTrackerHeadError
    \/ SubmitDownloads
    \/ \E i \in 1..Len(tasks) : StartDownload(i)
    \/ \E i \in 1..Len(tasks) : DownloadSucceeds(i)
    \/ \E i \in 1..Len(tasks) : DownloadFails(i)
    \/ WriteLedger
    \/ WriteLedgerFails
    \/ NoChanges
    \/ DeleteFiles
    \/ DeleteFilesSwallowsErrors

Spec == Init /\ [][Next]_vars

\* the steps of a run whose listing may hold a file_name more than once
NextDup ==
    \/ RetrieveFilesMetadata(DupListings)
    \/ RetrieveFilesMetadataFails
    \/ UpsertFileTrackerCall
    \/ UpsertFileTrackerHeadError
    \/ SubmitDownloads
    \/ \E i \in 1..Len(tasks) : StartDownload(i)
    \/ \E i \in 1..Len(tasks) : DownloadSucceeds(i)
    \/ \E i \in 1..Len(tasks) : DownloadFails(i)
    \/ WriteLedger
    \/ WriteLedgerFails
    \/ NoChanges
    \/ DeleteFiles
    \/ DeleteFilesSwallowsErrors

SpecDup == Init /\ [][NextDup]_vars

\* the steps of a run of src/bls.py, which keeps everything on the local
\* file system, with the points at which the process can stop
NextStandalone ==
    \/ RetrieveFilesMetadata(Listings)
    \/ RetrieveFilesMetadataFails
    \/ UpsertFileTrackerStandalone
    \/ SubmitDownloads
    \/ \E i \in 1..Len(tasks) : StartDownload(i)
    \/ \E i \in 1..Len(tasks) : DownloadSucceeds(i)
    \/ \E i \in 1..Len(tasks) : DownloadFails(i)
    \/ WriteLedger
    \/ WriteLedgerFails
    \/ NoChanges
    \/ DeleteFiles
    \/ DeleteFilesRaises
    \/ Crash

SpecStandalone == Init /\ [][NextStandalone]_vars

\* the steps of a run of src/src/ingest/bls.py with the tracking file and the
\* download directory on the local file system
NextLocal ==
    \/ RetrieveFilesMetadata(Listings)
    \/ RetrieveFilesMetadataFails
    \/ UpsertFileTrackerCall
    \/ SubmitDownloads
    \/ \E i \in 1..Len(tasks) : StartDownload(i)
    \/ \E i \in 1..Len(tasks) : DownloadSucceeds(i)
    \/ \E i \in 1..Len(tasks) : DownloadFails(i)
    \/ WriteLedger
    \/ WriteLedgerFails
    \/ NoChanges
    \/ DeleteFiles
    \/ DeleteFilesRaises
    \/ Crash
    \/ CrashDuringWrite

SpecLocal == Init /\ [][NextLocal]_vars

\* the steps of a run of src/src/ingest/bls.py with the attempts of
\* retrieve_files_metadata and of download_file as single steps
NextRetry ==
    \/ StartRun
    \/ RetrieveAttemptReturns(Listings)
    \/ \E error \in FetchErrors : RetrieveAttemptRaises(error)
    \/ UpsertFileTrackerCall
    \/ UpsertFileTrackerHeadError
    \/ SubmitDownloads
    \/ \E i \in 1..Len(tasks) : StartDownload(i)
    \/ \E i \in 1..Len(tasks) : DownloadAttemptSucceeds(i)
    \/ \E i \in 1..Len(tasks) : DownloadAttemptFails(i)
    \/ WriteLedger
    \/ WriteLedgerFails
    \/ NoChanges
    \/ DeleteFiles
    \/ DeleteFilesSwallowsErrors

SpecRetry == Init /\ [][NextRetry]_vars

\* a row of a tracking file whose header lacks column c: the row has no
\* field of that column (the empty text stands for it and is never read)
WithoutColumn(r, c) == [r EXCEPT ![c] = ""]

\* the tracking files the runs of SpecMalformed start from: one or two
\* active rows, as to_csv writes them, in a file that lacks one column
MalformedLedgers ==
    LET a == ToCsvRow(NewRecord([file_name |-> "A", file_timestamp |-> "t1",
                                 full_url |-> "u1"], Strftime(0)))
        b == ToCsvRow(NewRecord([file_name |-> "B", file_timestamp |-> "t1",
                                 full_url |-> "u1"], Strftime(0)))
    IN  {[columns |-> Columns \ {c},
          rows |-> [i \in 1..Len(rows) |-> WithoutColumn(rows[i], c)]] :
            c \in Columns, rows \in {<<a>>, <<a, b>>}}

\* a tracking file that lacks a required column is in place (written by
\* another tool or edited by hand) when the first run starts
InitMalformed ==
    /\ \E m \in MalformedLedgers :
        /\ ledgerFile = [exists |-> TRUE, rows |-> m.rows]
        /\ columns = m.columns
        /\ store = {m.rows[i].file_name : i \in 1..Len(m.rows)} \ {""}
    /\ clock = 0
    /\ pc = "idle"
    /\ max_workers = 1
    /\ listing = <<>>
    /\ loaded = NotLoaded
    /\ df = NoFrame
    /\ updates = <<>>
    /\ deletions = <<>>
    /\ tasks = <<>>
    /\ files_to_download = <<>>
    /\ attempts = <<>>
    /\ fetch = <<>>
    /\ response = NoResponse
    /\ base_url = HttpsUrl
    /\ handler = NoInvocation
    /\ fs = NoFiles
    /\ other = NoOtherRun

\* the steps of a run of src/src/ingest/bls.py
NextMalformed ==
    \/ RetrieveFilesMetadata(Listings)
    \/ RetrieveFilesMetadataFails
    \/ UpsertFileTrackerCall
    \/ SubmitDownloads
    \/ \E i \in 1..Len(tasks) : StartDownload(i)
    \/ \E i \in 1..Len(tasks) : DownloadSucceeds(i)
    \/ \E i \in 1..Len(tasks) : DownloadFails(i)
    \/ WriteLedger
    \/ WriteLedgerFails
    \/ NoChanges
    \/ DeleteFiles

SpecMalformed == InitMalformed /\ [][NextMalformed]_vars

----------------------------------------------------------------------------
(* Vocabulary of the properties *)

\* upsert_file_tracker has returned and its results are held by the run
Reconciled == pc \in {"reconciled", "download", "delete"}

\* the run time the call stamps
Now == Strftime(clock)

Rows(frame) == 1..Len(frame)

ActiveRows(frame, name) ==
    {i \in Rows(frame) : frame[i].file_name = name /\ frame[i].is_active = "Y"}

InactiveRows(frame, name) ==
    {i \in Rows(frame) : frame[i].file_name = name /\ frame[i].is_active = "N"}

\* at most one row of a file_name is active
UniqueActive(frame) ==
    \A i, j \in Rows(frame) :
        (/\ frame[i].file_name = frame[j].file_name
         /\ frame[i].is_active = "Y"
         /\ frame[j].is_active = "Y") => i = j

\* a missing end_timestamp, in memory or in the CSV
NoEnd(v) == IsNull(v) \/ v = ""

\* end_timestamp is set exactly on the inactive rows
EndIffInactive(frame) ==
    \A i \in Rows(frame) :
        /\ frame[i].is_active \in {"Y", "N"}
        /\ NoEnd(frame[i].end_timestamp) <=> frame[i].is_active = "Y"

----------------------------------------------------------------------------
(* C1 *)

\* C1: current-version uniqueness.  Starting from no ledger, over runs whose
\* listings hold every file_name at most once, the ledger returned by
\* upsert_file_tracker and the persisted ledger have at most one row with
\* is_active = "Y" per file_name.
C1_CurrentVersionUnique ==
    /\ UniqueActive(ledgerFile.rows)
    /\ Reconciled => UniqueActive(df)

\* a persisted ledger in which a file has a superseded row and a current row
C1_Witness ==
    \E n \in FileNames :
        /\ InactiveRows(ledgerFile.rows, n) /= {}
        /\ ActiveRows(ledgerFile.rows, n) /= {}

----------------------------------------------------------------------------
(* C4 *)

\* C4: in every ledger returned by upsert_file_tracker, and in the ledger as
\* persisted, end_timestamp is set if and only if is_active = "N".
C4_EndTimestampIffInactive ==
    /\ EndIffInactive(ledgerFile.rows)
    /\ Reconciled => EndIffInactive(df)

\* a returned ledger with a row made inactive by this call, a row that was
\* inactive before it and an active row
C4_Witness ==
    /\ pc = "reconciled"
    /\ \E i, j, k \in Rows(df) :
        /\ df[i].is_active = "N" /\ df[i].end_timestamp = Now
        /\ df[j].is_active = "N" /\ df[j].end_timestamp /= Now
        /\ df[k].is_active = "Y"

----------------------------------------------------------------------------
(* C2 *)

\* every row that is inactive in before is the same row, at the same index, in after
InactiveKept(before, after) ==
    \A i \in Rows(before) :
        before[i].is_active = "N" => (i <= Len(after) /\ after[i] = before[i])

\* C2: append-only history.  In a call of upsert_file_tracker on an existing
\* ledger, every row that is inactive in the loaded ledger is present and
\* unchanged (so still inactive) in the returned ledger and in the ledger the
\* next call loads once the returned one is persisted; a file that returns
\* gets an appended row.
C2_AppendOnlyHistory ==
    (Reconciled /\ loaded.exists) =>
        /\ InactiveKept(loaded.rows, df)
        /\ InactiveKept(loaded.rows, LoadTarget(ToCsv(df)))
        /\ \A k \in Rows(df) :
            (df[k].is_active = "Y" /\ k <= Len(loaded.rows)) => loaded.rows[k].is_active = "Y"

\* a file whose only rows are inactive is in the listing again: its old row
\* stays, an appended row is the active one
C2_Witness ==
    /\ pc = "reconciled"
    /\ loaded.exists
    /\ \E n \in SourceFileNames(listing) :
        /\ InactiveRows(loaded.rows, n) /= {}
        /\ ActiveRows(loaded.rows, n) = {}
        /\ \E k \in Rows(df) : k > Len(loaded.rows) /\ k \in ActiveRows(df, n)

----------------------------------------------------------------------------
(* C3 *)

SameEntry(r, q) ==
    /\ r.file_name = q.file_name
    /\ r.file_timestamp = q.file_timestamp
    /\ r.full_url = q.full_url
    /\ r.start_timestamp = q.start_timestamp

\* C3: the persisted ledger grows monotonically.  Over every step of every
\* run, failed storage calls included, each row of the persisted ledger
\* (file_name, file_timestamp, full_url, start_timestamp) is still in the
\* persisted ledger after the step.
C3_LedgerMonotone ==
    [][\A i \in Rows(ledgerFile.rows) :
          \E j \in Rows(ledgerFile'.rows) : SameEntry(ledgerFile.rows[i], ledgerFile'.rows[j])]_vars

----------------------------------------------------------------------------
(* C8 *)

\* the ledger entry a listing record starts as
FreshEntry(r, rec) ==
    /\ r.file_name = rec.file_name
    /\ r.file_timestamp = rec.file_timestamp
    /\ r.full_url = rec.full_url
    /\ r.start_timestamp = Now
    /\ IsNull(r.end_timestamp)
    /\ r.is_active = "Y"

\* C8: first run.  When no ledger exists, upsert_file_tracker returns a
\* ledger with exactly one row per listing record, each with
\* start_timestamp = now, end_timestamp null and is_active = "Y"; all rows are
\* the additions and there is no retirement.
C8_FirstRun ==
    (Reconciled /\ ~ledgerFile.exists) =>
        /\ Len(df) = Len(listing)
        /\ \A i \in Rows(df) : FreshEntry(df[i], listing[i])
        /\ updates = df
        /\ deletions = <<>>

\* the first run on a listing of two files
C8_Witness ==
    /\ pc = "reconciled"
    /\ ~ledgerFile.exists
    /\ Len(listing) = 2
    /\ Len(updates) = 2

----------------------------------------------------------------------------
(* C9 *)

\* the rows the call appended
Appended == {j \in Rows(df) : j > Len(loaded.rows)}

\* C9: new file against an existing ledger.  For every listing record whose
\* file_name has no active row in the loaded ledger, the call appends exactly
\* one row for it, active, with start_timestamp = now and end_timestamp null,
\* and returns it in the additions.
C9_NewFileAppended ==
    (Reconciled /\ loaded.exists) =>
        \A k \in Rows(listing) :
            ActiveRows(loaded.rows, listing[k].file_name) = {} =>
                LET new == {j \in Appended : df[j].file_name = listing[k].file_name}
                IN  /\ Cardinality(new) = 1
                    /\ ActiveRows(df, listing[k].file_name) = new
                    /\ \A j \in new :
                        /\ FreshEntry(df[j], listing[k])
                        /\ \E u \in Rows(updates) : updates[u] = df[j]

\* the listing names a file the ledger has only inactive rows of, with the
\* timestamp and the URL of such a row
C9_Witness ==
    /\ pc = "reconciled"
    /\ loaded.exists
    /\ \E k \in Rows(listing) :
        /\ ActiveRows(loaded.rows, listing[k].file_name) = {}
        /\ \E i \in InactiveRows(loaded.rows, listing[k].file_name) :
            /\ loaded.rows[i].file_timestamp = listing[k].file_timestamp
            /\ loaded.rows[i].full_url = listing[k].full_url

----------------------------------------------------------------------------
(* C6 *)

Differs(r, rec) ==
    r.file_timestamp /= rec.file_timestamp \/ r.full_url /= rec.full_url

\* C6: update detection.  When the loaded ledger has an active row for the
\* file_name of a listing record and the record differs from it in
\* file_timestamp or in full_url, the call makes that row inactive with
\* end_timestamp = now, appends one active row with the record's
\* file_timestamp and full_url and start_timestamp = now, returns that row in
\* the additions and does not retire the file_name.
C6_UpdateDetection ==
    (Reconciled /\ loaded.exists) =>
        \A k \in Rows(listing) :
            \A i \in ActiveRows(loaded.rows, listing[k].file_name) :
                Differs(loaded.rows[i], listing[k]) =>
                    /\ df[i] = [loaded.rows[i] EXCEPT !.is_active = "N", !.end_timestamp = Now]
                    /\ \E j \in Appended :
                        /\ FreshEntry(df[j], listing[k])
                        /\ \A h \in Appended : df[h].file_name = df[j].file_name => h = j
                        /\ \E u \in Rows(updates) : updates[u] = df[j]
                    /\ listing[k].file_name \notin Elems(deletions)

\* the listing's record differs from the active row in full_url alone
C6_Witness ==
    /\ pc = "reconciled"
    /\ loaded.exists
    /\ \E k \in Rows(listing) :
        \E i \in ActiveRows(loaded.rows, listing[k].file_name) :
            /\ loaded.rows[i].file_timestamp = listing[k].file_timestamp
            /\ loaded.rows[i].full_url /= listing[k].full_url
            /\ loaded.rows[i].start_timestamp /= Now

----------------------------------------------------------------------------
(* C10 *)

\* every listing record equals the active row of its name, and every active
\* row's name is in the listing
Matches(frame, src) ==
    /\ \A k \in Rows(src) :
        /\ ActiveRows(frame, src[k].file_name) /= {}
        /\ \A i \in ActiveRows(frame, src[k].file_name) : ~Differs(frame[i], src[k])
    /\ \A i \in Rows(frame) :
        frame[i].is_active = "Y" => frame[i].file_name \in SourceFileNames(src)

\* the call ran on the ledger the storage holds (none, or the one it loaded)
SawLedger == loaded.exists <=> ledgerFile.exists

\* C10: no spurious change.  When the listing matches the active rows of the
\* ledger, upsert_file_tracker returns no addition, no retirement and the
\* ledger it loaded, and the run submits no download, writes no ledger and
\* deletes nothing.
C10_NoSpuriousChange ==
    /\ [](/\ (pc = "listed" /\ Matches(LoadTarget(ledgerFile.rows), listing)) =>
                ~UpsertFileTracker(listing, ledgerFile.exists, ledgerFile.rows, Now).raised
          /\ (Reconciled /\ SawLedger /\ Matches(loaded.rows, listing)) =>
                /\ updates = <<>>
                /\ deletions = <<>>
                /\ df = loaded.rows
                /\ tasks = <<>>
                /\ pc /= "delete")
    /\ [][(Reconciled /\ SawLedger /\ Matches(loaded.rows, listing)) =>
                /\ ledgerFile' = ledgerFile
                /\ store' = store
                /\ tasks' = <<>>
                /\ pc' \in {"download", "done"}]_vars

\* a run on a ledger with two active files and a listing equal to them
C10_Witness ==
    /\ pc = "download"
    /\ loaded.exists
    /\ Len(listing) = 2
    /\ Matches(loaded.rows, listing)

----------------------------------------------------------------------------
(* C5 *)

\* the run writes the returned ledger
Changed == updates /= <<>> \/ deletions /= <<>>

\* the ledger the call returned is the one the storage holds once the run has
\* persisted it as download_relevant_files does: it is written, or it is the
\* ledger the call loaded
ReturnedIsPersisted == pc = "reconciled" /\ (Changed \/ SawLedger)

\* what a second call of upsert_file_tracker with the same listing returns at
\* time t on that storage
SecondCall(t) ==
    UpsertFileTracker(listing,
                      ledgerFile.exists \/ Changed,
                      IF Changed THEN ToCsv(df) ELSE ledgerFile.rows,
                      Strftime(t))

NoDelta(r) == ~r.raised /\ r.updates = <<>> /\ r.deletions = <<>>

----------------------------------------------------------------------------
(* C7 *)

\* the active rows of the loaded ledger whose file_name the listing lacks
Gone == {i \in Rows(loaded.rows) :
            /\ loaded.rows[i].is_active = "Y"
            /\ loaded.rows[i].file_name \notin SourceFileNames(listing)}

\* the active rows of the loaded ledger that a listing record equals
Unchanged == {i \in Rows(loaded.rows) :
                /\ loaded.rows[i].is_active = "Y"
                /\ \E k \in Rows(listing) :
                    /\ listing[k].file_name = loaded.rows[i].file_name
                    /\ ~Differs(loaded.rows[i], listing[k])}

\* the result of the call retires the rows of Gone and nothing else
Retired ==
    /\ \A i \in Gone :
        df[i] = [loaded.rows[i] EXCEPT !.is_active = "N", !.end_timestamp = Now]
    /\ Elems(deletions) = {loaded.rows[i].file_name : i \in Gone}
    /\ \A i \in Unchanged : df[i] = loaded.rows[i]

\* C7: retirement.  Every call of upsert_file_tracker that finds the ledger
\* returns, with every active row whose file_name is nowhere in the listing
\* made inactive with end_timestamp = now and named in the retirements, no
\* other name in the retirements, and the unchanged rows untouched.
C7_Retirement ==
    [][(/\ pc = "listed"
        /\ ledgerFile.exists
        /\ ~(pc' = "reconciled" /\ ~loaded'.exists))
            => (pc' = "reconciled" /\ Retired')]_vars

----------------------------------------------------------------------------
(* C11 *)

\* the (full_url, file_name) pairs of the additions
PairsOf(upd) == {<<upd[i].full_url, upd[i].file_name>> : i \in Rows(upd)}

\* the tasks of the run have been submitted
Submitted == pc \in {"download", "delete"}

\* C11: only deltas are downloaded.  In every run one task is submitted per
\* entry of files_to_download, the submitted (full_url, file_name) pairs are
\* exactly those of the additions that upsert_file_tracker returned, and no
\* task names a file whose active row in the loaded ledger equals the
\* listing's record.
C11_OnlyDeltas ==
    Submitted =>
        /\ Len(tasks) = Len(files_to_download)
        /\ Len(files_to_download) = Len(updates)
        /\ Elems(files_to_download) = PairsOf(updates)
        /\ loaded.exists =>
            \A k \in Rows(listing) :
                (\E i \in ActiveRows(loaded.rows, listing[k].file_name) :
                    ~Differs(loaded.rows[i], listing[k]))
                    => \A t \in Rows(files_to_download) :
                            files_to_download[t][2] /= listing[k].file_name

\* of two listed files one equals its active row and the other is downloaded
C11_Witness ==
    /\ pc = "download"
    /\ loaded.exists
    /\ Len(listing) = 2
    /\ Len(tasks) = 1
    /\ \E k \in Rows(listing) :
        /\ \E i \in ActiveRows(loaded.rows, listing[k].file_name) :
            ~Differs(loaded.rows[i], listing[k])
        /\ files_to_download[1][2] /= listing[k].file_name
    /\ tasks[1] = "ok"

----------------------------------------------------------------------------
(* C12 *)

\* a step that writes the ledger location
LedgerWritten == ledgerFile' /= ledgerFile

\* a step that deletes a stored file
FileDeleted == store' /= store /\ store' \subseteq store

\* C12: ordering.  Within a run the listing is retrieved before the
\* reconciliation and the reconciliation is done before the first download
\* starts; a step that writes the ledger location or deletes a stored file
\* is taken only when every download task of the run is submitted and has
\* ended in success or error (a run whose reconciliation returns no addition
\* has no task to wait for).
C12_Ordering ==
    [][/\ pc' = "reconciled" => pc = "listed"
       /\ pc' = "download" => pc \in {"reconciled", "download"}
       /\ (\E i \in Rows(tasks') : tasks'[i] /= "queued") => pc' \in {"download", "delete"}
       /\ LedgerWritten => /\ AllDone(tasks)
                           /\ pc = "download" \/ updates' = <<>>
       /\ FileDeleted => /\ AllDone(tasks)
                         /\ pc = "delete"]_vars

----------------------------------------------------------------------------
(* C13 *)

Failed(t) == {i \in Rows(t) : t[i] = "error"}
Terminal(t) == {i \in Rows(t) : t[i] \in {"ok", "error"}}

\* some download step of the pool can be taken
PoolCanStep ==
    \E i \in Rows(tasks) :
        ENABLED StartDownload(i) \/ ENABLED DownloadSucceeds(i) \/ ENABLED DownloadFails(i)

\* C13: per-task failure isolation.  The step in which a download task ends
\* in error changes no other task; no step leaves the download phase while a
\* task has not ended; a task that has ended keeps its outcome; while some task has failed and
\* another has not ended, the pool can still take a step; and once all have
\* ended with some in error, the ledger write is enabled, it writes the
\* whole reconciled ledger and it is followed by the deletions when there
\* are retirements.
C13_FailureIsolation ==
    /\ []((pc = "download" /\ Failed(tasks) /= {}) =>
            /\ ~AllDone(tasks) => PoolCanStep
            /\ AllDone(tasks) => ENABLED WriteLedger)
    /\ [][pc = "download" =>
            /\ (pc' = "download" /\ Failed(tasks') /= Failed(tasks)) =>
                    \E i \in Rows(tasks) :
                        /\ tasks[i] = "running"
                        /\ tasks' = [tasks EXCEPT ![i] = "error"]
                        /\ store' = store
            /\ ~AllDone(tasks) => pc' = "download"
            /\ pc' = "download" => \A i \in Terminal(tasks) : tasks'[i] = tasks[i]
            /\ (Failed(tasks) /= {} /\ LedgerWritten) =>
                    /\ ledgerFile'.rows = ToCsv(df)
                    /\ deletions /= <<>> => (pc' = "delete" /\ deletions' = deletions)
                    /\ deletions = <<>> => pc' = "done"]_vars

\* with one worker the first task failed, the second ran after it and
\* succeeded, and the ledger can be written
C13_Witness ==
    /\ pc = "download"
    /\ max_workers = 1
    /\ tasks = <<"error", "ok">>
    /\ ENABLED WriteLedger

----------------------------------------------------------------------------
(* C14 *)

\* C14: bounded parallelism.  At every moment of a run, max_workers is at
\* least 1 and the number of download tasks that a worker thread is running
\* is at most max_workers.
C14_BoundedParallelism ==
    /\ max_workers >= 1
    /\ Cardinality(Running(tasks)) <= max_workers

\* one worker and two tasks: one runs while the other waits in the queue
C14_Witness ==
    /\ pc = "download"
    /\ max_workers = 1
    /\ Len(tasks) = 2
    /\ Cardinality(Running(tasks)) = 1
    /\ \E i \in Rows(tasks) : tasks[i] = "queued"

----------------------------------------------------------------------------
(* C15 *)

\* what the attempts made so far allow the state of a task to be
AttemptsAgree(state, n) ==
    /\ n \in 0..StopAfterAttempt
    /\ state = "queued" => n = 0
    /\ state = "running" => n < StopAfterAttempt
    /\ state = "ok" => n >= 1
    /\ state = "error" => n = StopAfterAttempt

\* C15: bounded retry.  A download task makes at most 3 attempts; it ends in
\* error only with its third failed attempt and ends in success with the
\* attempt that succeeds, which stores its file; a task that has ended makes
\* no further attempt; and an attempt of one task changes neither the state
\* nor the attempts of any other task.
C15_BoundedRetry ==
    /\ [](Len(attempts) = Len(tasks) /\
          \A i \in Rows(tasks) : AttemptsAgree(tasks[i], attempts[i]))
    /\ [][(pc = "download" /\ pc' = "download") =>
            \A i \in Rows(tasks) :
                /\ i \in Terminal(tasks) => (tasks'[i] = tasks[i] /\ attempts'[i] = attempts[i])
                /\ attempts'[i] /= attempts[i] =>
                    /\ attempts'[i] = attempts[i] + 1
                    /\ tasks[i] = "running"
                    /\ tasks'[i] = "ok" => files_to_download[i][2] \in store'
                    /\ \A j \in Rows(tasks) \ {i} :
                        tasks'[j] = tasks[j] /\ attempts'[j] = attempts[j]]_vars

\* one task failed three times and ended in error, the other succeeded at
\* its second attempt
C15_Witness ==
    /\ pc = "download"
    /\ Len(tasks) = 2
    /\ \E i, j \in Rows(tasks) :
        /\ tasks[i] = "error" /\ attempts[i] = StopAfterAttempt
        /\ tasks[j] = "ok" /\ attempts[j] = 2

----------------------------------------------------------------------------
(* C16 *)

\* an addition by the fields the listing gives it
Identity(upd) ==
    [i \in Rows(upd) |-> <<upd[i].file_name, upd[i].file_timestamp, upd[i].full_url>>]

\* upsert_file_tracker of a following run, at time t, with the same listing
\* and the tracking file as the storage holds it now
FollowingCall(t) ==
    LET r == UpsertFileTracker(listing, ledgerFile.exists, ledgerFile.rows, Strftime(t))
    IN  IF /\ ledgerFile.exists
           /\ columns /= Columns
           /\ RaisesKeyError(listing, LoadTarget(ledgerFile.rows), columns, Strftime(t))
        THEN [r EXCEPT !.raised = TRUE]
        ELSE r

\* upsert_file_tracker has returned and the ledger write has not begun
BeforeWrite == pc \in {"reconciled", "download"}

\* C16: crash-retry safety.  Whenever a run with a listing that is not
\* empty stands between the return of upsert_file_tracker and its ledger
\* write, a run that follows its stop with the same listing gets from
\* upsert_file_tracker the same additions (by file_name, file_timestamp,
\* full_url) and the same retirements.
C16_CrashRetrySafe ==
    (BeforeWrite /\ listing /= <<>>) =>
        \A t \in {clock, clock + 1} :
            /\ ~FollowingCall(t).raised
            /\ Identity(FollowingCall(t).updates) = Identity(updates)
            /\ FollowingCall(t).deletions = deletions

----------------------------------------------------------------------------
(* C17 *)

\* C17: whole-ledger write.  The ledger location changes only in the one
\* write step of a run, after the downloads, and every change of it puts the
\* complete ledger the run computed in place of the one from before the run.
C17_WholeLedgerWrite ==
    [][LedgerWritten =>
            /\ pc = "download"
            /\ ledgerFile' = [exists |-> TRUE, rows |-> ToCsv(df)]]_vars

----------------------------------------------------------------------------
(* C18 *)

\* the step with which a run returns without raising
Completes == pc \in {"download", "delete"} /\ pc' = "done"

\* C18: persist and retire.  When a run returns without raising, the
\* tracking file holds the reconciled ledger if the run found a change, and
\* no file named in the retirements is left in the download directory.
C18_PersistedAndRetired ==
    [][Completes =>
            /\ Changed => ledgerFile' = [exists |-> TRUE, rows |-> ToCsv(df)]
            /\ store' \cap Elems(deletions) = {}]_vars

----------------------------------------------------------------------------
(* C19 *)

\* C19: ledger malformation.  Whenever the tracking file that
\* upsert_file_tracker loads lacks one of the six columns, the call raises
\* and the run fails there, whatever the listing: before any download, any
\* ledger write and any deletion.
C19_MalformedLedgerIsFatal ==
    [][(pc = "listed" /\ ledgerFile.exists /\ columns /= Columns) => pc' = "failed"]_vars

----------------------------------------------------------------------------
(* C20 *)

\* the attempt of this step raised and retrieve_files_metadata is run again
Retried == pc = "fetch" /\ pc' = "fetch" /\ Len(fetch') = Len(fetch) + 1

\* C20: parse errors are not retried.  An attempt of
\* retrieve_files_metadata is run again only after a transient I/O error (no
\* connection, a status other than 200), never after an error of parsing
\* the page (a timestamp that does not match the format).
C20_ParseErrorNotRetried ==
    [][Retried => fetch'[Len(fetch')] \in {"connection", "http_status"}]_vars

----------------------------------------------------------------------------
(* retrieve_files_metadata on the page it fetched *)

\* response.status_code the listing is parsed for
StatusOk == 200
\* the status codes the server answers with
StatusCodes == {StatusOk, 503}

\* a piece of the <pre> block between two <br/>: one that
\* file_regex_pattern matches and strptime accepts, one that it matches with
\* a date strptime rejects, one that it does not match
RowLine(r) == [kind |-> "row", rec |-> r]
BadTimestampLine == [kind |-> "bad_timestamp"]
NoMatchLine == [kind |-> "no_match"]

\* the rows among the lines
RowsOfLines(ls) == SelectSeq(ls, LAMBDA l : l.kind = "row")

\* the rows of a listing as lines of the page
LinesOf(l) == [i \in 1..Len(l) |-> RowLine(l[i])]

\* the lines ahead of the rows: none, one the pattern does not match (the
\* link to the parent directory), one whose date strptime rejects
LeadingLines == {<<>>, <<NoMatchLine>>, <<BadTimestampLine>>}

\* the responses of the server: an error status, a page without <pre>, a
\* page whose <pre> block holds the rows of a listing after the leading lines
Pages ==
    {[status_code |-> c, pre |-> FALSE, lines |-> <<>>] : c \in StatusCodes}
    \cup {[status_code |-> StatusOk, pre |-> TRUE, lines |-> lead \o LinesOf(l)] :
            lead \in LeadingLines, l \in Listings}

\* str(soup.find("pre")).split("<br/>"): without a <pre> block find gives
\* None and the only piece is the text "None", which the pattern rejects
SplitPre(page) == IF page.pre THEN page.lines ELSE <<NoMatchLine>>

\* the attempt raises: the status is not 200, or strptime rejects the date
\* of a matched line
ParseRaises(page) ==
    \/ page.status_code /= StatusOk
    \/ \E i \in 1..Len(SplitPre(page)) : SplitPre(page)[i].kind = "bad_timestamp"

\* file_metadata_list: one record for every piece the pattern matches
FileMetadataList(page) ==
    LET rows == RowsOfLines(SplitPre(page))
    IN  [i \in 1..Len(rows) |-> rows[i].rec]

\* requests.get answers the attempt
RequestsGet ==
    /\ pc = "fetch"
    /\ \E page \in Pages : response' = page
    /\ pc' = "parse"
    /\ UNCHANGED <<ledgerFile, columns, store, clock, max_workers, listing, loaded, df,
                   updates, deletions, tasks, files_to_download, attempts, fetch,
                   base_url, handler, fs, other>>

\* the attempt parses the response and returns file_metadata_list
ParseReturns ==
    /\ pc = "parse"
    /\ ~ParseRaises(response)
    /\ listing' = FileMetadataList(response)
    /\ pc' = "listed"
    /\ fetch' = <<>>
    /\ UNCHANGED <<ledgerFile, columns, store, clock, max_workers, loaded, df, updates,
                   deletions, tasks, files_to_download, attempts, response, base_url,
                   handler, fs, other>>

\* faulty variant: the error of the first attempt ends the call at once, and
\* the run goes on with an empty listing
ParseFailsKeepsRunning ==
    /\ pc = "parse"
    /\ ParseRaises(response)
    /\ listing' = <<>>
    /\ pc' = "listed"
    /\ fetch' = <<>>
    /\ UNCHANGED <<ledgerFile, columns, store, clock, max_workers, loaded, df, updates,
                   deletions, tasks, files_to_download, attempts, response, base_url,
                   handler, fs, other>>

\* the attempt raises on the response: tenacity runs retrieve_files_metadata
\* again, and after the attempt stop_after_attempt(3) allows last the error
\* leaves download_relevant_files and main()
ParseFails ==
    /\ pc = "parse"
    /\ ParseRaises(response)
    /\ IF Len(fetch) + 1 < StopAfterAttempt
       THEN /\ fetch' = Append(fetch, IF response.status_code /= StatusOk
                                      THEN "http_status" ELSE "timestamp_format")
            /\ pc' = "fetch"
            /\ UNCHANGED <<max_workers, listing, loaded, df, updates, deletions,
                           tasks, files_to_download, attempts, response, base_url,
                           handler, fs, other>>
       ELSE EndRun("failed")
    /\ UNCHANGED <<ledgerFile, columns, store, clock>>

\* the steps of a run of src/src/ingest/bls.py with the request and the
\* parsing of each attempt of retrieve_files_metadata as single steps
NextPage ==
    \/ StartRun
    \/ RequestsGet
    \/ RetrieveAttemptRaises("connection")
    \/ ParseReturns
    \/ ParseFails
    \/ UpsertFileTrackerCall
    \/ UpsertFileTrackerHeadError
    \/ SubmitDownloads
    \/ \E i \in 1..Len(tasks) : StartDownload(i)
    \/ \E i \in 1..Len(tasks) : DownloadSucceeds(i)
    \/ \E i \in 1..Len(tasks) : DownloadFails(i)
    \/ WriteLedger
    \/ WriteLedgerFails
    \/ NoChanges
    \/ DeleteFiles
    \/ DeleteFilesSwallowsErrors

SpecPage == Init /\ [][NextPage]_vars

----------------------------------------------------------------------------
(* C21 *)

\* the page gives the pattern nothing to match
NoListingBlock(page) ==
    /\ page.status_code = StatusOk
    /\ \/ ~page.pre
       \/ \A i \in 1..Len(page.lines) : page.lines[i].kind = "no_match"

\* C21: an attempt of retrieve_files_metadata that got a page without a <pre>
\* block, or a page none of whose lines the row pattern matches, does not
\* return a listing: it raises.
C21_NoBlockIsAnError ==
    [][(pc = "parse" /\ NoListingBlock(response)) => pc' /= "listed"]_vars

----------------------------------------------------------------------------
(* C22 *)

\* the run is inside retrieve_files_metadata
Retrieving == pc \in {"fetch", "parse"}

\* the attempt at hand got a non-success status
NonSuccess == pc = "parse" /\ response.status_code /= StatusOk

\* C22: an attempt of retrieve_files_metadata whose request got a status other
\* than 200 raises; the call is tried again until the third attempt and then
\* the run ends in failure, and from the start of the run to that end nothing
\* is downloaded, written to the ledger or deleted.
C22_ListingUnavailable ==
    /\ [](Retrieving => (Len(fetch) < StopAfterAttempt /\ tasks = <<>>))
    /\ [][Retrieving => UNCHANGED <<ledgerFile, columns, store>>]_vars
    /\ [][NonSuccess =>
            /\ Len(fetch) + 1 < StopAfterAttempt => pc' = "fetch"
            /\ Len(fetch) + 1 = StopAfterAttempt => pc' = "failed"]_vars

\* the third attempt in a row got a non-success status, with a ledger
\* persisted and files stored
C22_Witness ==
    /\ NonSuccess
    /\ Len(fetch) = StopAfterAttempt - 1
    /\ \A i \in 1..Len(fetch) : fetch[i] = "http_status"
    /\ ledgerFile.exists
    /\ store /= {}

----------------------------------------------------------------------------
(* Loading the configuration *)

\* the base_url values of the configurations
BaseUrls == {HttpsUrl, <<"http://", "host/">>, <<"ftp://", "host/">>, <<"host/">>}

\* base_url.startswith(("http://", "https://"))
StartsWithHttp(url) == url[1] \in {"http://", "https://"}

\* the download.max_workers values of the configurations
WorkerSettings == 0..MaxWorkers

\* DownloadConfig and BLSConfig accept the values
ValidConfig(w, url) == ~(w < 1) /\ StartsWithHttp(url)

\* BLSDataDownloader.__init__ of src/src/ingest/bls.py: load_config_model
\* builds BLSConfig and DownloadConfig, whose constructors raise ValueError
LoadConfigModel ==
    /\ pc \in {"idle", "done", "failed"}
    /\ Len(ledgerFile.rows) + MaxListing <= MaxRows
    /\ clock' \in {clock, clock + 1}
    /\ clock' <= MaxClock
    /\ \E w \in WorkerSettings, url \in BaseUrls :
          IF ValidConfig(w, url)
          THEN /\ max_workers' = w
               /\ base_url' = url
               /\ pc' = "loaded"
               /\ UNCHANGED <<listing, loaded, df, updates, deletions, tasks,
                              files_to_download, attempts, fetch, response, handler, fs, other>>
          ELSE EndRun("failed")
    /\ UNCHANGED <<ledgerFile, columns, store>>

\* BLSDataDownloader.__init__ of src/bls.py: the values are read from the
\* dictionary as they are
LoadConfigStandalone ==
    /\ pc \in {"idle", "done", "failed"}
    /\ Len(ledgerFile.rows) + MaxListing <= MaxRows
    /\ clock' \in {clock, clock + 1}
    /\ clock' <= MaxClock
    /\ \E w \in WorkerSettings, url \in BaseUrls :
          /\ max_workers' = w
          /\ base_url' = url
    /\ pc' = "loaded"
    /\ UNCHANGED <<ledgerFile, columns, store, listing, loaded, df, updates, deletions,
                   tasks, files_to_download, attempts, fetch, response, handler, fs, other>>

\* retrieve_files_metadata with the loaded base_url: requests.get raises on
\* every attempt for a URL without the http or https scheme
RetrieveConfigured(pages) ==
    /\ pc = "loaded"
    /\ IF StartsWithHttp(base_url)
       THEN /\ \E l \in pages : listing' = l
            /\ pc' = "listed"
            /\ UNCHANGED <<max_workers, loaded, df, updates, deletions, tasks,
                           files_to_download, attempts, fetch, response, base_url,
                           handler, fs, other>>
       ELSE EndRun("failed")
    /\ UNCHANGED <<ledgerFile, columns, store, clock>>

\* retrieve_files_metadata raises after its attempts
RetrieveConfiguredFails ==
    /\ pc = "loaded"
    /\ EndRun("failed")
    /\ UNCHANGED <<ledgerFile, columns, store, clock>>

\* ThreadPoolExecutor(max_workers=...) with the loaded value, which raises
\* ValueError unless the value is positive, and the submits
SubmitConfigured ==
    /\ pc = "reconciled"
    /\ IF max_workers < 1
       THEN EndRun("failed")
       ELSE /\ files_to_download' = FilesToDownload(updates)
            /\ tasks' = [i \in 1..Len(files_to_download') |-> "queued"]
            /\ attempts' = [i \in 1..Len(files_to_download') |-> 0]
            /\ pc' = "download"
            /\ UNCHANGED <<max_workers, listing, loaded, df, updates, deletions,
                           fetch, response, base_url, handler, fs, other>>
    /\ UNCHANGED <<ledgerFile, columns, store, clock>>

\* the steps of a run of src/src/ingest/bls.py from the loading of the
\* configuration
NextConfig ==
    \/ LoadConfigModel
    \/ RetrieveConfigured(Listings)
    \/ RetrieveConfiguredFails
    \/ UpsertFileTrackerCall
    \/ UpsertFileTrackerHeadError
    \/ SubmitConfigured
    \/ \E i \in 1..Len(tasks) : StartDownload(i)
    \/ \E i \in 1..Len(tasks) : DownloadSucceeds(i)
    \/ \E i \in 1..Len(tasks) : DownloadFails(i)
    \/ WriteLedger
    \/ WriteLedgerFails
    \/ NoChanges
    \/ DeleteFiles
    \/ DeleteFilesSwallowsErrors

SpecConfig == Init /\ [][NextConfig]_vars

\* the steps of a run of src/bls.py from the loading of the configuration
NextConfigStandalone ==
    \/ LoadConfigStandalone
    \/ RetrieveConfigured(Listings)
    \/ RetrieveConfiguredFails
    \/ UpsertFileTrackerStandalone
    \/ SubmitConfigured
    \/ \E i \in 1..Len(tasks) : StartDownload(i)
    \/ \E i \in 1..Len(tasks) : DownloadSucceeds(i)
    \/ \E i \in 1..Len(tasks) : DownloadFails(i)
    \/ WriteLedger
    \/ WriteLedgerFails
    \/ NoChanges
    \/ DeleteFiles
    \/ DeleteFilesRaises

SpecConfigStandalone == Init /\ [][NextConfigStandalone]_vars

----------------------------------------------------------------------------
(* C23 *)

\* the run has done nothing but load its configuration
OnlyLoaded ==
    /\ pc = "loaded"
    /\ listing = <<>>
    /\ loaded = NotLoaded
    /\ tasks = <<>>

\* C23: a configuration with download.max_workers below 1, or with a base_url
\* that starts with neither http:// nor https://, is rejected when it is
\* loaded: a run that holds such a configuration has requested no listing, read
\* or written no ledger and stored no file.
C23_InvalidConfigRejected ==
    /\ [](OnlyLoaded \/ pc \in {"idle", "done", "failed"}
            \/ ValidConfig(max_workers, base_url))
    /\ [][~ValidConfig(max_workers, base_url)
            => UNCHANGED <<ledgerFile, columns, store>>]_vars

----------------------------------------------------------------------------
(* lambda_handler *)

\* the variables of the BLS ingest
blsVars == <<ledgerFile, store, clock, pc, max_workers, listing, loaded,
             df, updates, deletions, tasks, files_to_download, attempts,
             columns, fetch, response, base_url>>

\* the eventSource of a record; None for a record without the key
EventSources == {"aws:sqs", "aws:s3", None}

\* the events: without the key 'Records', or with a list of records (empty,
\* of one record, of an s3 record followed by an sqs record and the reverse)
Events ==
    {[has_records |-> FALSE, Records |-> <<>>]}
    \cup {[has_records |-> TRUE, Records |-> rs] :
            rs \in {<<>>, <<"aws:s3", "aws:sqs">>, <<"aws:sqs", "aws:s3">>}
                   \cup {<<e>> : e \in EventSources}}

\* os.environ.get('config_path'): the value, or None when it is not set
ConfigPaths == {"s3://bucket/config.yaml", None}

\* the file population_handler writes
PopulationJson == "population.json"

\* event['Records'][0] of an empty list raises IndexError
DetectRaises(event) == event.has_records /\ Len(event.Records) = 0

\* detect_trigger_source
DetectTriggerSource(event) ==
    IF event.has_records /\ event.Records[1] = "aws:sqs"
    THEN "SQS"
    ELSE "Other"

\* run_type = 'analyze' if trigger_source == 'SQS' else 'ingest'
RunType(trigger_source) == IF trigger_source = "SQS" THEN "analyze" ELSE "ingest"

\* the response of the except branch
ErrorResponse(h) == [h EXCEPT !.at = "returned", !.statusCode = 400]

\* the response after the selected operation returned
OkResponse(h) == [h EXCEPT !.at = "returned", !.statusCode = 200]

\* op(config_path) is called
Called(h, op) == [h EXCEPT !.calls = Append(@, <<op, h.config_path>>)]

\* the runtime invokes lambda_handler(event, context): the trigger source
\* and the run type are worked out
LambdaHandler ==
    /\ handler.at \in {"idle", "returned"}
    /\ pc \in {"idle", "done", "failed"}
    /\ Len(ledgerFile.rows) + MaxListing <= MaxRows
    /\ \E event \in Events, config_path \in ConfigPaths :
        LET h == [at |-> "detect", event |-> event, config_path |-> config_path,
                  run_type |-> "", calls |-> <<>>, statusCode |-> 0]
        IN  handler' =
                IF DetectRaises(event)
                THEN ErrorResponse(h)
                ELSE LET run_type == RunType(DetectTriggerSource(event))
                     IN  [h EXCEPT !.run_type = run_type,
                                   !.at = IF run_type = "ingest" THEN "bls_handler"
                                          ELSE "analysis_handler"]
    /\ UNCHANGED <<blsVars, fs, other>>

\* bls_handler(config_path): the configuration is loaded and
\* retrieve_files_metadata returns a listing
BlsHandler(pages) ==
    /\ handler.at = "bls_handler"
    /\ handler.config_path /= None
    /\ clock' \in {clock, clock + 1}
    /\ clock' <= MaxClock
    /\ \E l \in pages : listing' = l
    /\ pc' = "listed"
    /\ handler' = [Called(handler, "bls_handler") EXCEPT !.at = "bls_running"]
    /\ UNCHANGED <<ledgerFile, columns, store, max_workers, loaded, df, updates, deletions,
                   tasks, files_to_download, attempts, fetch, response, base_url, fs, other>>

\* bls_handler(config_path) raises before the listing is there: the
\* configuration cannot be loaded, retrieve_files_metadata gives up
BlsHandlerFails ==
    /\ handler.at = "bls_handler"
    /\ pc' = "failed"
    /\ handler' = ErrorResponse(Called(handler, "bls_handler"))
    /\ UNCHANGED <<ledgerFile, columns, store, clock, max_workers, listing, loaded, df,
                   updates, deletions, tasks, files_to_download, attempts, fetch,
                   response, base_url, fs, other>>

\* download_relevant_files returned: population_handler is next
BlsHandlerReturns ==
    /\ handler.at = "bls_running"
    /\ pc = "done"
    /\ handler' = [handler EXCEPT !.at = "population_handler"]
    /\ UNCHANGED <<blsVars, fs, other>>

\* download_relevant_files raised
BlsHandlerRaises ==
    /\ handler.at = "bls_running"
    /\ pc = "failed"
    /\ handler' = ErrorResponse(handler)
    /\ UNCHANGED <<blsVars, fs, other>>

\* population_handler(config_path) fetches the data and writes the file
PopulationHandler ==
    /\ handler.at = "population_handler"
    /\ store' = store \cup {PopulationJson}
    /\ handler' = OkResponse(Called(handler, "population_handler"))
    /\ UNCHANGED <<ledgerFile, columns, clock, pc, max_workers, listing, loaded, df,
                   updates, deletions, tasks, files_to_download, attempts, fetch,
                   response, base_url, fs, other>>

\* population_handler(config_path) raises
PopulationHandlerFails ==
    /\ handler.at = "population_handler"
    /\ handler' = ErrorResponse(Called(handler, "population_handler"))
    /\ UNCHANGED <<blsVars, fs, other>>

\* analysis_handler(config_path) reads the stored data and logs the metrics
AnalysisHandler ==
    /\ handler.at = "analysis_handler"
    /\ handler.config_path /= None
    /\ handler' = OkResponse(Called(handler, "analysis_handler"))
    /\ UNCHANGED <<blsVars, fs, other>>

\* analysis_handler(config_path) raises
AnalysisHandlerFails ==
    /\ handler.at = "analysis_handler"
    /\ handler' = ErrorResponse(Called(handler, "analysis_handler"))
    /\ UNCHANGED <<blsVars, fs, other>>

\* the steps of the invocations of lambda_handler
NextLambda ==
    \/ LambdaHandler
    \/ BlsHandler(Listings)
    \/ BlsHandlerFails
    \/ UpsertFileTrackerCall
    \/ UpsertFileTrackerHeadError
    \/ SubmitDownloads
    \/ \E i \in 1..Len(tasks) : StartDownload(i)
    \/ \E i \in 1..Len(tasks) : DownloadSucceeds(i)
    \/ \E i \in 1..Len(tasks) : DownloadFails(i)
    \/ WriteLedger
    \/ WriteLedgerFails
    \/ NoChanges
    \/ DeleteFiles
    \/ DeleteFilesSwallowsErrors
    \/ BlsHandlerReturns
    \/ BlsHandlerRaises
    \/ PopulationHandler
    \/ PopulationHandlerFails
    \/ AnalysisHandler
    \/ AnalysisHandlerFails

SpecLambda == Init /\ [][NextLambda]_vars

----------------------------------------------------------------------------
(* C24 *)

\* the first record of the event comes from sqs
FirstIsSqs(event) ==
    /\ event.has_records
    /\ Len(event.Records) >= 1
    /\ event.Records[1] = "aws:sqs"

\* the operations the event selects, in their order
Selected(event) ==
    IF FirstIsSqs(event)
    THEN <<"analysis_handler">>
    ELSE <<"bls_handler", "population_handler">>

\* the operations called so far are the first of the selected ones, each
\* with the configuration location
CallsFollow(h) ==
    /\ Len(h.calls) <= Len(Selected(h.event))
    /\ \A i \in 1..Len(h.calls) :
          h.calls[i] = <<Selected(h.event)[i], h.config_path>>

\* lambda_handler is invoked in this step
Invoked == handler.at \in {"idle", "returned"} /\ handler'.at /= handler.at

\* C24: lambda_handler runs the analysis, and no ingestion, for an event whose
\* first record has eventSource 'aws:sqs'; for every other event it runs the
\* BLS ingest and then the population ingest, and no analysis; each operation
\* is called with the configuration location and nothing else.
C24_TriggerRouting ==
    /\ [](CallsFollow(handler)
          /\ (handler.at = "returned" /\ handler.statusCode = 200
                => Len(handler.calls) = Len(Selected(handler.event))))
    /\ [][Invoked => handler'.at = Selected(handler'.event)[1]]_vars

----------------------------------------------------------------------------
(* C25 *)

\* download_relevant_files returns in this step
BlsIngestReturns == handler.at = "bls_running" /\ pc /= "done" /\ pc' = "done"

\* C25: lambda_handler answers every invocation with statusCode 200 or 400, and
\* with 200 only when every step of the selected operation succeeded: every
\* selected operation was called and returned, and the BLS ingest returns only
\* when every download it submitted succeeded.
C25_NoSilentPartialSuccess ==
    /\ [](handler.at = "returned" =>
            /\ handler.statusCode \in {200, 400}
            /\ handler.statusCode = 200 =>
                  Len(handler.calls) = Len(Selected(handler.event)))
    /\ [][BlsIngestReturns => \A i \in 1..Len(tasks) : tasks[i] = "ok"]_vars

----------------------------------------------------------------------------
(* C26 *)

\* the lists of names delete_files is given
FileLists == UNION {[1..n -> FileNames] : n \in 0..MaxListing}

\* C26: delete_files on names whose files are not stored changes nothing and
\* raises nothing, on the local directory and on s3; delete_files applied a
\* second time to the same list changes nothing more and does not raise.
C26_DeleteIdempotent ==
    \A backend \in Backends, file_list \in FileLists :
        LET once == DeleteFilesOn(backend, store, file_list)
            twice == DeleteFilesOn(backend, once.store, file_list)
        IN  /\ ~once.raised
            /\ Elems(file_list) \cap store = {} => once.store = store
            /\ Elems(file_list) \cap once.store = {}
            /\ twice = once

\* delete_files is called with the name of a file that is not stored, in a
\* directory that holds other files
C26_Witness ==
    /\ pc = "delete"
    /\ \E i \in 1..Len(deletions) : deletions[i] \notin store
    /\ store /= {}

----------------------------------------------------------------------------
(* The writes to storage: write_as_json, download_file, write_dataframe_as_csv *)

\* the paths written to: on s3 or local, with or without a directory
\* (a key prefix on s3) before the file name
Paths == [s3 : BOOLEAN, directory : {"", "dir"}, name : {"file"}]

\* os.path.dirname(filepath): an s3 path always has the bucket in it
Dirname(path) ==
    IF path.s3
    THEN IF path.directory = "" THEN "s3://bucket" ELSE "s3://bucket/dir"
    ELSE path.directory

\* the payloads handed to write_as_json, and the text json.dumps(..., indent=4)
\* makes of the object
JsonPayloads == {"{\"a\":1}", "not json"}
IndentedJson == "{\n    \"a\": 1\n}"

\* json.loads raises on the text
JsonLoadsRaises(text) == text \notin {"{\"a\":1}", IndentedJson}
\* json.loads(text)
JsonLoads(text) == IF JsonLoadsRaises(text) THEN None ELSE [a |-> 1]
\* json.dumps(obj, indent=4)
JsonDumps(obj) == IndentedJson

\* what the other writers store: response.content, the CSV text
Contents == {"content", "other content"}

\* the file at path holds text: open(..., "w") or put_object
Stored(files, path, text) == {f \in files : f[1] /= path} \cup {<<path, text>>}

\* os.path.exists, or head_object answering
Exists(files, path) == \E f \in files : f[1] = path

\* the text of the file at path
ReadText(files, path) == (CHOOSE f \in files : f[1] = path)[2]

\* the call that was made and how it ended
Call(op, path, payload, raised) ==
    [op |-> op, path |-> path, payload |-> payload, raised |-> raised]

\* the model's run variables and the handler, which the writes leave alone
otherVars == <<ledgerFile, store, clock, pc, max_workers, listing, loaded,
               df, updates, deletions, tasks, files_to_download, attempts,
               columns, fetch, response, base_url, handler, other>>

\* write_as_json(payload_str, filepath): nothing is done for a path without
\* a directory; on a local path open() has emptied the file when json.loads
\* raises
WriteAsJson(path, payload_str) ==
    /\ fs' = IF Dirname(path) = ""
             THEN [fs EXCEPT !.call = Call("write_as_json", path, payload_str, FALSE)]
             ELSE IF JsonLoadsRaises(payload_str)
             THEN [fs EXCEPT !.call = Call("write_as_json", path, payload_str, TRUE),
                             !.dirs = IF path.s3 THEN @ ELSE @ \cup {Dirname(path)},
                             !.files = IF path.s3 THEN @ ELSE Stored(@, path, "")]
             ELSE [dirs |-> IF path.s3 THEN fs.dirs ELSE fs.dirs \cup {Dirname(path)},
                   files |-> Stored(fs.files, path, JsonDumps(JsonLoads(payload_str))),
                   call |-> Call("write_as_json", path, payload_str, FALSE)]
    /\ UNCHANGED otherVars

\* download_file(url, headers, directory, filename) after the response came
DownloadFile(path, content) ==
    /\ fs' = [dirs |-> IF path.s3 \/ path.directory = "" THEN fs.dirs
                       ELSE fs.dirs \cup {path.directory},
              files |-> Stored(fs.files, path, content),
              call |-> Call("download_file", path, content, FALSE)]
    /\ UNCHANGED otherVars

\* write_dataframe_as_csv(df, file_path): to_csv raises when the directory
\* of a local path is not there
WriteDataframeAsCsv(path, content) ==
    /\ fs' = IF ~path.s3 /\ path.directory /= "" /\ path.directory \notin fs.dirs
             THEN [fs EXCEPT !.call = Call("write_dataframe_as_csv", path, content, TRUE)]
             ELSE [fs EXCEPT !.files = Stored(fs.files, path, content),
                             !.call = Call("write_dataframe_as_csv", path, content, FALSE)]
    /\ UNCHANGED otherVars

\* the writes, in any order, on any path
NextWrite ==
    \/ \E path \in Paths, payload_str \in JsonPayloads : WriteAsJson(path, payload_str)
    \/ \E path \in Paths, content \in Contents : DownloadFile(path, content)
    \/ \E path \in Paths, content \in Contents : WriteDataframeAsCsv(path, content)

SpecWrite == Init /\ [][NextWrite]_vars

----------------------------------------------------------------------------
(* C27 *)

\* what reading the path must give back for the call
ReadsBack(call) ==
    IF call.op = "write_as_json"
    THEN JsonLoads(ReadText(fs.files, call.path)) = JsonLoads(call.payload)
    ELSE ReadText(fs.files, call.path) = call.payload

\* C27: after a write that returned without an error, on any path, the
\* directory of a local path is there, the path exists and reading it gives
\* what was written.
C27_WriteThenRead ==
    (fs.call.op /= "none" /\ ~fs.call.raised) =>
        /\ Exists(fs.files, fs.call.path)
        /\ ReadsBack(fs.call)
        /\ (~fs.call.path.s3 /\ fs.call.path.directory /= "")
              => fs.call.path.directory \in fs.dirs

----------------------------------------------------------------------------
(* C28 *)

\* row q is what row r was before it was written
RoundTripRow(r, q) ==
    /\ SameEntry(r, q)
    /\ q.is_active = r.is_active
    /\ q.is_active \in {"Y", "N"}
    /\ IsNull(q.end_timestamp) <=> IsNull(r.end_timestamp)
    /\ ~IsNull(r.end_timestamp) => q.end_timestamp = r.end_timestamp

\* the frame comes back from the CSV text
RoundTrip(frame) ==
    LET back == LoadTarget(ToCsv(frame))
    IN  /\ Len(back) = Len(frame)
        /\ \A i \in 1..Len(frame) : RoundTripRow(frame[i], back[i])

----------------------------------------------------------------------------
(* C29 *)

\* the names of the active rows of the tracking file
ActiveNames == {ledgerFile.rows[i].file_name :
                  i \in {j \in 1..Len(ledgerFile.rows) : ledgerFile.rows[j].is_active = "Y"}}

\* C29: after every run that completed, the file of every active row of the
\* persisted ledger is stored in the download directory; and a run that finds
\* an active row whose file is not stored, with the file still in the listing,
\* downloads it.
C29_LedgerMatchesStorage ==
    /\ [](pc = "done" => ActiveNames \subseteq store)
    /\ [][(pc = "reconciled" /\ pc' = "download") =>
            \A name \in (ActiveNames \cap SourceFileNames(listing)) \ store :
                \E k \in 1..Len(files_to_download') : files_to_download'[k][2] = name]_vars

----------------------------------------------------------------------------
(* C30 *)

\* the names the listing holds more than once
DuplicatedNames(src) ==
    {src[i].file_name : i \in {k \in 1..Len(src) :
                                 \E j \in 1..Len(src) : j /= k /\ src[j].file_name = src[k].file_name}}

\* C30: for a listing that holds a file_name in two records,
\* upsert_file_tracker, on a first run as on an existing ledger, returns a
\* ledger with at most one active row of that name, and a second call with the
\* same listing on that ledger returns no additions.
C30_DuplicateNames ==
    (pc = "reconciled" /\ DuplicatedNames(listing) /= {}) =>
        /\ \A name \in DuplicatedNames(listing) : Cardinality(ActiveRows(df, name)) <= 1
        /\ (Changed \/ SawLedger) =>
              \A t \in {clock, clock + 1} :
                  ~SecondCall(t).raised /\ SecondCall(t).updates = <<>>

----------------------------------------------------------------------------
(* C31 *)

\* the call is made with an empty listing on a ledger that has active rows
EmptyListingCall ==
    /\ pc = "listed"
    /\ listing = <<>>
    /\ ledgerFile.exists
    /\ \E i \in Rows(ledgerFile.rows) : ledgerFile.rows[i].is_active = "Y"

\* every active row of the loaded ledger is retired at the run time, named in
\* the retirements, and nothing is added
AllRetired ==
    /\ updates = <<>>
    /\ Len(df) = Len(loaded.rows)
    /\ \A i \in Rows(loaded.rows) :
          loaded.rows[i].is_active = "Y" =>
              /\ df[i] = [loaded.rows[i] EXCEPT !.is_active = "N", !.end_timestamp = Now]
              /\ loaded.rows[i].file_name \in Elems(deletions)

\* C31: when the listing is empty and the ledger has active rows,
\* upsert_file_tracker returns normally, with every active row made inactive
\* with end_timestamp = now, every such file_name in the retirements and no
\* additions.
C31_EmptyListingRetiresAll ==
    [][(EmptyListingCall /\ ~(pc' = "reconciled" /\ ~loaded'.exists))
            => (pc' = "reconciled" /\ AllRetired')]_vars

----------------------------------------------------------------------------
(* C32 *)

\* the active rows of the loaded ledger that a listing record differs from
Superseded == {i \in Rows(loaded.rows) :
                 /\ loaded.rows[i].is_active = "Y"
                 /\ \E k \in Rows(listing) :
                     /\ listing[k].file_name = loaded.rows[i].file_name
                     /\ Differs(loaded.rows[i], listing[k])}

\* row i of the returned ledger is row i of the loaded one but for the flag
\* and the end
OnlyEnded(i) ==
    df[i] = [loaded.rows[i] EXCEPT !.is_active = df[i].is_active,
                                   !.end_timestamp = df[i].end_timestamp]

\* C32: frame of reconcile.  One call of upsert_file_tracker changes nothing
\* but is_active and end_timestamp, and those only on the rows it supersedes
\* or retires: every loaded row keeps file_name, file_timestamp, full_url and
\* start_timestamp, a row that was inactive or that matches the listing keeps
\* every field, and the ledger grows by exactly the additions.
C32_ReconcileFrame ==
    Reconciled =>
        /\ Len(df) = Len(loaded.rows) + Len(updates)
        /\ \A i \in Rows(loaded.rows) :
            /\ OnlyEnded(i)
            /\ df[i] /= loaded.rows[i] => i \in Superseded \cup Gone
            /\ loaded.rows[i].is_active = "N" => df[i] = loaded.rows[i]
            /\ i \in Unchanged => df[i] = loaded.rows[i]

\* a call that superseded one row of the loaded ledger and retired another
C32_Witness ==
    /\ pc = "reconciled"
    /\ Superseded /= {}
    /\ Gone /= {}
    /\ updates /= <<>>
    /\ \E i \in Superseded, j \in Gone : df[i] /= loaded.rows[i] /\ df[j] /= loaded.rows[j]

----------------------------------------------------------------------------
(* C33 *)

\* C33: effective dating without gaps.  Every timestamp one call of
\* upsert_file_tracker stamps is the run time of that call: an appended row
\* starts at the run time, a row that ends in the call ends at the run time,
\* so a superseded row ends when the row that follows it starts; and the
\* start_timestamp of a loaded row is never changed.
C33_GapFreeDating ==
    Reconciled =>
        /\ \A j \in Appended : df[j].start_timestamp = Now
        /\ \A i \in Rows(loaded.rows) :
            /\ df[i].start_timestamp = loaded.rows[i].start_timestamp
            /\ df[i] /= loaded.rows[i] => df[i].end_timestamp = Now
        /\ \A i \in Superseded :
            \E j \in Appended :
                /\ df[j].file_name = df[i].file_name
                /\ df[j].start_timestamp = df[i].end_timestamp

\* a row that started in an earlier run is superseded in a later one
C33_Witness ==
    /\ pc = "reconciled"
    /\ \E i \in Superseded :
        /\ df[i].start_timestamp /= Now
        /\ df[i].end_timestamp = Now
        /\ \E j \in Appended : df[j].file_name = df[i].file_name

----------------------------------------------------------------------------
(* C34 *)

\* the file_names of the additions
AddedNames == {updates[i].file_name : i \in Rows(updates)}

\* C34: the file_names of the additions and the file_names of the
\* retirements one call of upsert_file_tracker returns are disjoint, for
\* every ledger and every listing, and the deletion step of a run removes no
\* file the run submitted for download.
C34_AdditionsNotRetired ==
    /\ [](Reconciled => AddedNames \cap Elems(deletions) = {})
    /\ [][pc = "delete" =>
            (store \ store') \cap {files_to_download[i][2] : i \in Rows(files_to_download)}
                = {}]_vars

\* a run that downloaded one file is about to delete another
C34_Witness ==
    /\ pc = "delete"
    /\ AddedNames /= {}
    /\ AddedNames \subseteq store
    /\ Elems(deletions) \cap store /= {}

----------------------------------------------------------------------------
(* C35 *)

\* listing record k names a file whose rows in the loaded ledger are all
\* inactive
Reappears(k) ==
    /\ loaded.exists
    /\ ActiveRows(loaded.rows, listing[k].file_name) = {}
    /\ InactiveRows(loaded.rows, listing[k].file_name) /= {}

\* C35: re-appearance.  A file_name whose rows were all retired in earlier
\* runs and that is in the listing again, be it with the file_timestamp and
\* full_url it had, gets exactly one appended active row, returned in the
\* additions and submitted for download in that run, and its inactive rows
\* stay as they were.
C35_Reappearance ==
    /\ [](Reconciled =>
            \A k \in Rows(listing) :
                Reappears(k) =>
                    /\ Cardinality({j \in Appended : FreshEntry(df[j], listing[k])}) = 1
                    /\ \E u \in Rows(updates) : FreshEntry(updates[u], listing[k])
                    /\ \A i \in InactiveRows(loaded.rows, listing[k].file_name) :
                          df[i] = loaded.rows[i])
    /\ [][(pc = "reconciled" /\ pc' = "download") =>
            \A k \in Rows(listing) :
                Reappears(k) =>
                    \E t \in Rows(files_to_download') :
                        files_to_download'[t] = <<listing[k].full_url, listing[k].file_name>>]_vars

\* the file is back with the file_timestamp and full_url of its retired row,
\* and its download has been submitted
C35_Witness ==
    /\ pc = "download"
    /\ \E k \in Rows(listing) :
        /\ Reappears(k)
        /\ \E i \in InactiveRows(loaded.rows, listing[k].file_name) :
              ~Differs(loaded.rows[i], listing[k])
        /\ \E t \in Rows(tasks) : files_to_download[t][2] = listing[k].file_name

----------------------------------------------------------------------------
(* C36 *)

\* the step is the ledger write of the run and it succeeded
CommitStep ==
    /\ pc = "download"
    /\ AllDone(tasks)
    /\ pc' \in {"delete", "done"}
    /\ ledgerFile' = [exists |-> TRUE, rows |-> ToCsv(df)]

\* C36: deletions follow a successful commit.  An artifact leaves the
\* download directory only in the deletion step, which is entered after the
\* ledger write of the run succeeded, and the persisted ledger changes in
\* no step of a run but that successful write: a run whose write fails on
\* all attempts deletes nothing and leaves the ledger it found.
C36_DeletionsFollowCommit ==
    [][/\ ~(store \subseteq store') =>
             /\ pc = "delete"
             /\ ledgerFile = [exists |-> TRUE, rows |-> ToCsv(df)]
       /\ ledgerFile' /= ledgerFile => CommitStep
       /\ (pc = "download" /\ pc' = "failed") =>
             /\ store' = store
             /\ ledgerFile' = ledgerFile]_vars

----------------------------------------------------------------------------
(* The download attempts and the status of their responses *)

\* response.content: the file for a success status, the server's error page
\* otherwise
ErrorBody == "error page"
Body(status_code) == IF status_code = StatusOk THEN "content" ELSE ErrorBody

\* response.raise_for_status() raises HTTPError for a 4xx or 5xx status
RaiseForStatusRaises(status_code) == status_code >= 400 /\ status_code < 600

\* an attempt of download_file of src/src/utils/file.py got its response:
\* raise_for_status raises and the attempt counts as failed, or the body is
\* stored at destination/file_name
DownloadFileAttempt(i, status_code) ==
    /\ pc = "download"
    /\ tasks[i] = "running"
    /\ attempts' = [attempts EXCEPT ![i] = @ + 1]
    /\ IF RaiseForStatusRaises(status_code)
       THEN /\ tasks' = IF attempts'[i] >= StopAfterAttempt
                        THEN [tasks EXCEPT ![i] = "error"]
                        ELSE tasks
            /\ fs' = [fs EXCEPT !.call = Call("download_file", files_to_download[i][2],
                                              Body(status_code), TRUE)]
            /\ store' = store
       ELSE /\ tasks' = [tasks EXCEPT ![i] = "ok"]
            /\ fs' = [fs EXCEPT !.files = Stored(@, files_to_download[i][2],
                                                 Body(status_code)),
                                !.call = Call("download_file", files_to_download[i][2],
                                              Body(status_code), FALSE)]
            /\ store' = store \cup {files_to_download[i][2]}
    /\ UNCHANGED <<ledgerFile, columns, clock, pc, max_workers, listing, loaded,
                   df, updates, deletions, files_to_download, fetch, response, base_url,
                   handler, other>>

\* an attempt of download_file of src/bls.py got its response: the status is
\* not looked at, response.content is written to save_path
DownloadFileAttemptStandalone(i, status_code) ==
    /\ pc = "download"
    /\ tasks[i] = "running"
    /\ attempts' = [attempts EXCEPT ![i] = @ + 1]
    /\ tasks' = [tasks EXCEPT ![i] = "ok"]
    /\ fs' = [fs EXCEPT !.files = Stored(@, files_to_download[i][2], Body(status_code)),
                        !.call = Call("download_file", files_to_download[i][2],
                                      Body(status_code), FALSE)]
    /\ store' = store \cup {files_to_download[i][2]}
    /\ UNCHANGED <<ledgerFile, columns, clock, pc, max_workers, listing, loaded,
                   df, updates, deletions, files_to_download, fetch, response, base_url,
                   handler, other>>

\* the steps of a run of src/src/ingest/bls.py with the attempts of
\* download_file and the status of each response
NextDownload ==
    \/ RetrieveFilesMetadata(Listings)
    \/ RetrieveFilesMetadataFails
    \/ UpsertFileTrackerCall
    \/ SubmitDownloads
    \/ \E i \in 1..Len(tasks) : StartDownload(i)
    \/ \E i \in 1..Len(tasks), status_code \in StatusCodes :
          DownloadFileAttempt(i, status_code)
    \/ \E i \in 1..Len(tasks) : DownloadAttemptFails(i)
    \/ WriteLedger
    \/ WriteLedgerFails
    \/ NoChanges
    \/ DeleteFiles

SpecDownload == Init /\ [][NextDownload]_vars

\* the same for src/bls.py
NextDownloadStandalone ==
    \/ RetrieveFilesMetadata(Listings)
    \/ RetrieveFilesMetadataFails
    \/ UpsertFileTrackerStandalone
    \/ SubmitDownloads
    \/ \E i \in 1..Len(tasks) : StartDownload(i)
    \/ \E i \in 1..Len(tasks), status_code \in StatusCodes :
          DownloadFileAttemptStandalone(i, status_code)
    \/ \E i \in 1..Len(tasks) : DownloadAttemptFails(i)
    \/ WriteLedger
    \/ WriteLedgerFails
    \/ NoChanges
    \/ DeleteFiles

SpecDownloadStandalone == Init /\ [][NextDownloadStandalone]_vars

----------------------------------------------------------------------------
(* C37 *)

\* the step is an attempt of task i that was answered with a non-success
\* status
NonSuccessAttempt(i) ==
    /\ pc = "download"
    /\ pc' = "download"
    /\ tasks[i] = "running"
    /\ attempts'[i] = attempts[i] + 1
    /\ fs'.call.op = "download_file"
    /\ fs'.call.path = files_to_download[i][2]
    /\ fs'.call.payload = ErrorBody

\* C37: a download answered with a non-success status is an error of its
\* task.  The attempt does not end the task as downloaded: the task is run
\* again until the attempt cap and then ends with the error; and no artifact
\* at destination/file_name ever holds the body of such a response.
C37_NonSuccessIsAnError ==
    /\ [](\A f \in fs.files : f[2] /= ErrorBody)
    /\ [][\A i \in Rows(tasks) :
            NonSuccessAttempt(i) =>
                /\ tasks'[i] = IF attempts'[i] >= StopAfterAttempt
                               THEN "error" ELSE "running"
                /\ store' = store
                /\ fs'.files = fs.files]_vars

\* a task ended with the error after its last attempt was answered with a
\* non-success status
C37_Witness ==
    /\ pc = "download"
    /\ fs.call.op = "download_file"
    /\ fs.call.payload = ErrorBody
    /\ \E i \in Rows(tasks) :
        /\ tasks[i] = "error"
        /\ attempts[i] = StopAfterAttempt
        /\ fs.call.path = files_to_download[i][2]

----------------------------------------------------------------------------
(* Two runs against the same tracking file and download directory *)

\* the second process got its listing and called upsert_file_tracker, which
\* read the tracking file as it was then: after the first run read it and
\* before the first run writes it
OtherReconcile ==
    /\ other.pc = "idle"
    /\ pc \in {"reconciled", "download"}
    /\ Len(ledgerFile.rows) + MaxListing <= MaxRows
    /\ \E l \in Listings :
        LET r == UpsertFileTracker(l, ledgerFile.exists, ledgerFile.rows, Strftime(clock))
        IN  /\ ~r.raised
            /\ r.updates /= <<>> \/ r.deletions /= <<>>
            /\ other' = [pc |-> "reconciled", exists |-> ledgerFile.exists, df |-> r.df,
                         updates |-> r.updates, deletions |-> r.deletions]
    /\ UNCHANGED <<ledgerFile, store, clock, pc, max_workers, listing, loaded, df, updates,
                   deletions, tasks, files_to_download, attempts, columns, fetch, response,
                   base_url, handler, fs>>

\* its pool has run the downloads: the files of those that succeeded are stored
OtherDownloads ==
    /\ other.pc = "reconciled"
    /\ \E ok \in SUBSET {other.updates[i].file_name : i \in 1..Len(other.updates)} :
          store' = store \cup ok
    /\ other' = [other EXCEPT !.pc = "downloaded"]
    /\ UNCHANGED <<ledgerFile, clock, pc, max_workers, listing, loaded, df, updates,
                   deletions, tasks, files_to_download, attempts, columns, fetch, response,
                   base_url, handler, fs>>

\* it writes its df_updated_target over the tracking file
OtherWriteLedger ==
    /\ other.pc = "downloaded"
    /\ ledgerFile' = [exists |-> TRUE, rows |-> ToCsv(other.df)]
    /\ columns' = DfColumns(other.exists, columns, other.df, other.updates)
    /\ other' = IF other.deletions /= <<>>
                THEN [other EXCEPT !.pc = "written"]
                ELSE [NoOtherRun EXCEPT !.pc = "ended"]
    /\ UNCHANGED <<store, clock, pc, max_workers, listing, loaded, df, updates,
                   deletions, tasks, files_to_download, attempts, fetch, response,
                   base_url, handler, fs>>

\* it deletes the files it retired
OtherDeleteFiles ==
    /\ other.pc = "written"
    /\ store' = DeleteS3(store, other.deletions).store
    /\ other' = [NoOtherRun EXCEPT !.pc = "ended"]
    /\ UNCHANGED <<ledgerFile, clock, pc, max_workers, listing, loaded, df, updates,
                   deletions, tasks, files_to_download, attempts, columns, fetch, response,
                   base_url, handler, fs>>

\* runs of src/src/ingest/bls.py step by step, one after the other, and one
\* run in another process whose steps fall anywhere between the steps of one
\* of them
NextTwoRuns ==
    \/ other.pc = "idle" /\ RetrieveFilesMetadata(Listings)
    \/ UpsertFileTrackerCall
    \/ SubmitDownloads
    \/ \E i \in 1..Len(tasks) : StartDownload(i)
    \/ \E i \in 1..Len(tasks) : DownloadSucceeds(i)
    \/ \E i \in 1..Len(tasks) : DownloadFails(i)
    \/ WriteLedger
    \/ NoChanges
    \/ DeleteFiles
    \/ OtherReconcile
    \/ OtherDownloads
    \/ OtherWriteLedger
    \/ OtherDeleteFiles

SpecTwoRuns == Init /\ [][NextTwoRuns]_vars

----------------------------------------------------------------------------
(* C38 *)

\* every row of the old ledger text is in the new one, whatever was done to
\* its end_timestamp and is_active
KeepsRows(old, new) ==
    \A i \in 1..Len(old) :
        \E j \in 1..Len(new) :
            /\ new[j].file_name = old[i].file_name
            /\ new[j].file_timestamp = old[i].file_timestamp
            /\ new[j].full_url = old[i].full_url
            /\ new[j].start_timestamp = old[i].start_timestamp

\* the persisted ledger has an active row for the file
MarkedActive(rows, name) ==
    \E j \in 1..Len(rows) : rows[j].file_name = name /\ rows[j].is_active = "Y"

\* a step that loses no row of the persisted ledger and deletes the
\* artifact of no file the persisted ledger marks as active
SafeStep ==
    /\ (ledgerFile.exists /\ ledgerFile' /= ledgerFile)
          => KeepsRows(ledgerFile.rows, ledgerFile'.rows)
    /\ \A name \in store \ store' : ~MarkedActive(ledgerFile'.rows, name)

\* C38 (serialized half): when the runs against a ledger location follow one
\* another, no write of the ledger drops a row an earlier run added and no
\* run deletes the artifact of a file the persisted ledger marks as active.
C38_SerializedRunsAreSafe == [][SafeStep]_vars

\* C38 (interleaved half), a state two interleaved runs reach: both have
\* read the ledger, the second has written its own, and the ledger the first
\* one is about to write lacks a row the second one added
C38_LostUpdate ==
    /\ pc = "download"
    /\ AllDone(tasks)
    /\ updates /= <<>>
    /\ other.pc \in {"idle", "written"}
    /\ ledgerFile.exists
    /\ ~KeepsRows(ledgerFile.rows, ToCsv(df))

\* C38 (interleaved half), the other state: the ledger marks a file as
\* active, a run that had read the ledger before has retired the file and is
\* about to delete its artifact
C38_ActiveWithoutArtifact ==
    /\ other.pc = "written"
    /\ \E i \in 1..Len(other.deletions) :
        /\ other.deletions[i] \in store
        /\ MarkedActive(ledgerFile.rows, other.deletions[i])

----------------------------------------------------------------------------
(* The network calls that are not answered *)

\* requests.get(url, headers=...) is called without a timeout: when the
\* server holds the connection and sends nothing, the attempt of
\* retrieve_files_metadata stays in the call
ListingRequestUnanswered ==
    /\ pc = "fetch"
    /\ pc' = "fetch_blocked"
    /\ UNCHANGED <<ledgerFile, columns, store, clock, max_workers, listing, loaded, df,
                   updates, deletions, tasks, files_to_download, attempts, fetch, response,
                   base_url, handler, fs, other>>

\* the same in download_file: the worker thread of the task stays in
\* requests.get
DownloadRequestUnanswered(i) ==
    /\ pc = "download"
    /\ tasks[i] = "running"
    /\ tasks' = [tasks EXCEPT ![i] = "blocked"]
    /\ UNCHANGED <<ledgerFile, columns, store, clock, pc, max_workers, listing, loaded,
                   df, updates, deletions, files_to_download, attempts, fetch, response,
                   base_url, handler, fs, other>>

\* an attempt of retrieve_files_metadata that was answered ends
RetrieveAttemptEnds ==
    \/ RetrieveAttemptReturns(Listings)
    \/ \E error \in FetchErrors : RetrieveAttemptRaises(error)

\* upsert_file_tracker returns or raises
UpsertFileTrackerEnds == UpsertFileTrackerCall \/ UpsertFileTrackerHeadError

\* the pool starts a queued task when a worker is free
PoolStarts == \E i \in 1..Len(tasks) : StartDownload(i)

\* an attempt of download_file that was answered ends
DownloadAttemptEnds ==
    \E i \in 1..Len(tasks) : DownloadAttemptSucceeds(i) \/ DownloadAttemptFails(i)

\* the tracking file is written, or the write fails, or there is nothing to write
PersistEnds == WriteLedger \/ WriteLedgerFails \/ NoChanges

\* delete_files returns
RetireEnds == DeleteFiles \/ DeleteFilesSwallowsErrors

\* the steps of a run with every outcome of its network calls
NextTermination ==
    \/ StartRun
    \/ RetrieveAttemptEnds
    \/ ListingRequestUnanswered
    \/ UpsertFileTrackerEnds
    \/ SubmitDownloads
    \/ PoolStarts
    \/ DownloadAttemptEnds
    \/ \E i \in 1..Len(tasks) : DownloadRequestUnanswered(i)
    \/ PersistEnds
    \/ RetireEnds

\* the main thread and the pool are scheduled fairly: every step of the
\* program that stays possible is taken.  Nothing makes the operator start
\* a run, and nothing makes a server answer.
Fairness ==
    /\ WF_vars(RetrieveAttemptEnds)
    /\ WF_vars(UpsertFileTrackerEnds)
    /\ WF_vars(SubmitDownloads)
    /\ WF_vars(PoolStarts)
    /\ WF_vars(DownloadAttemptEnds)
    /\ WF_vars(PersistEnds)
    /\ WF_vars(RetireEnds)

SpecTermination == Init /\ [][NextTermination]_vars /\ Fairness

----------------------------------------------------------------------------
(* C39 *)

\* a run is under way
Busy == pc \notin {"idle", "done", "failed"}

\* C39: termination.  Under fair scheduling every run that was started
\* ends, with the persist-and-retire step finished or with a terminal error,
\* whatever the number of tasks and the outcome of each network call.
C39_Termination == Busy ~> ~Busy

=============================================================================
